---- MODULE Spec2Model ----
(***************************************************************************)
(* Tenant-scoped identity, ephemeral credentials, tokens and the credit    *)
(* ledger of the ai-chatbot-hub backend (backend/app), as a state machine. *)
(*                                                                         *)
(* The relational store is the state: one variable per table.  A request   *)
(* handler is one action, except the handlers whose interleavings matter   *)
(* (priced chat, register, register-google): those are split at the points *)
(* where the handler's session reads rows and where it commits.            *)
(*                                                                         *)
(* Strings that the code takes apart (emails, package names) are sequences *)
(* of one-character strings.  Time is a counter of ticks; the three TTLs   *)
(* keep their order (10 minutes < 24 hours < 7 days) but not their scale.  *)
(* Columns that no check of the handlers reads (full_name, is_anonymous,   *)
(* created_at other than as the order of ids) are left out of the rows.    *)
(***************************************************************************)
EXTENDS Integers, Sequences, FiniteSets, TLC

\* ------------------------------------------------------------- bounds
MaxUsers == 4
MaxTime == 4
MaxCredit == 12
MaxCost == 13
MaxRecords == 2
MaxRequests == 2
MaxChats == 3
MaxTagLen == 2

\* ------------------------------------------------------ program constants
\* UserCreate.credit default, and the literal register compares against.
ModelDefaultCredit == 10
\* CreditAddRequest.amount: gt=0, lt=10.
AdAmountLow == 0
AdAmountHigh == 10

\* ------------------------------------------------------------- helpers
None == [none |-> TRUE]

Range(s) == {s[i] : i \in 1..Len(s)}

Min(a, b) == IF a <= b THEN a ELSE b

Max(a, b) == IF a >= b THEN a ELSE b

\* str.find: the first index of character c in s, 0 when absent.
IndexOf(s, c) ==
    IF c \in Range(s) THEN CHOOSE i \in 1..Len(s) : s[i] = c /\ \A j \in 1..(i - 1) : s[j] # c
    ELSE 0

\* ------------------------------------------------------ email tagging
\* utils.prefix_email_with_package: username, domain = email.split("@");
\* f"{package_name}+{username}@{domain}".  Every email the model passes
\* holds exactly one "@" (EmailStr at the API boundary).
prefix_email_with_package(email, package_name) ==
    LET at == IndexOf(email, "@")
        username == SubSeq(email, 1, at - 1)
        domain == SubSeq(email, at + 1, Len(email))
    IN package_name \o <<"+">> \o username \o <<"@">> \o domain

\* utils.extract_real_email: everything after the first "+", or the input
\* itself when it holds no "+".
extract_real_email(prefixed_email) ==
    IF "+" \notin Range(prefixed_email) THEN prefixed_email
    ELSE SubSeq(prefixed_email, IndexOf(prefixed_email, "+") + 1, Len(prefixed_email))

\* ------------------------------------------------ password primitive
\* app.core.security.password is not part of the sources; the contract is
\* verify(plain, hash(plain)) and nothing else verifies.
get_password_hash(password) == <<"hash", password>>

verify_password(password, hashed_password) == hashed_password = <<"hash", password>>

\* ------------------------------------------------------------- domains
AppIds == {1, 2}
PackageP == <<"p">>
PackageQ == <<"q">>
\* Values of the X-Application-Key header: two package names, an unknown one.
Keys == {PackageP, PackageQ, <<"z">>}
EmailA == <<"a", "@", "x">>
EmailB == <<"b", "@", "x">>
Emails == {EmailA, EmailB}
Passwords == {"pw1", "pw2"}
GoogleIds == {"g1", "g2"}
\* Six-digit codes of verifications and reset tokens (secrets.choice per digit).
Codes == {"000111", "000222"}
\* secrets.token_urlsafe(16) of invitations.
InviteCodes == {"tokA", "tokB"}
UserIds == 1..MaxUsers
RequestIds == 1..MaxRequests

VARIABLES
    applications,   \* table application: id -> row
    users,          \* table user: id -> row
    verifications,  \* table verification: set of rows
    reset_tokens,   \* table reset_password_token: set of rows
    invitations,    \* table invitation: set of rows
    nextId,         \* rows created so far per table (ids and creation order)
    now,            \* datetime.now(timezone.utc), in ticks
    tokens,         \* the signed tokens minted so far (claims sub, app)
    requests,       \* handlers in flight: request id -> local state
    resp,           \* the response of the handler that completed last
    ledger,         \* history: uses and grants per invitation, debits per user
    debit,          \* inputs and result of one process_credit_deduction call
    redeem_codes,   \* table redeemcode: set of rows
    ASSISTANT_CONFIGS,  \* assistant_config.ASSISTANT_CONFIGS: type -> config dict
    objects,        \* the mutable values nested in config dicts: reference -> list
    config,         \* the dict the last get_assistant_config call handed to its caller
    request_records,    \* RateLimitMiddleware.request_records: ip -> timestamps
    forwarded       \* history: the times at which each ip's requests were passed on

vars == <<applications, users, verifications, reset_tokens, invitations, nextId,
          now, tokens, requests, resp, ledger, debit, redeem_codes,
          ASSISTANT_CONFIGS, objects, config, request_records, forwarded>>

\* The assistant registry and what its callers hold; the rate limiter.
llm == <<ASSISTANT_CONFIGS, objects, config>>

middleware == <<request_records, forwarded>>

\* ------------------------------------------------------------ responses
\* What a handler hands back: op names the handler (or the handler's step),
\* args its request payload, status/detail the HTTP outcome, minted the
\* tokens of a Token response, out the other fields of the response body.
Response(op, args, status, detail, minted, out) ==
    [op |-> op, args |-> args, status |-> status, detail |-> detail,
     minted |-> minted, out |-> out]

NoArgs == [none |-> TRUE]

\* ---------------------------------------------------- tenant resolution
\* The X-Application-Key header left out or empty (`not x_application_key`).
NoKey == <<>>

\* get_application_by_package_name looking at the package name alone, not
\* at is_active.
get_application_by_package_name_inactive_too(x_application_key) ==
    IF x_application_key = NoKey THEN 0
    ELSE IF \E a \in AppIds : applications[a].package_name = x_application_key
    THEN CHOOSE a \in AppIds : applications[a].package_name = x_application_key
    ELSE 0

\* deps.get_application_by_package_name: the application whose package_name
\* equals the header and whose is_active is true; 0 stands for the 401.
get_application_by_package_name(x_application_key) ==
    IF x_application_key = NoKey THEN 0
    ELSE IF \E a \in AppIds : /\ applications[a].package_name = x_application_key
                              /\ applications[a].is_active
    THEN CHOOSE a \in AppIds : /\ applications[a].package_name = x_application_key
                               /\ applications[a].is_active
    ELSE 0

\* The 401 of get_application_by_package_name: one detail for a header that
\* is missing, another for a key that selects no active application.
TenantRejected(op, args) ==
    Response(op, args, 401,
             IF args.key = NoKey THEN "X-Application-Key header is required"
             ELSE "Invalid or inactive application key",
             {}, NoArgs)

\* ------------------------------------------------------------ user table
\* select(User).where(User.id == user_id, User.application_id == application_id)
get_user_by_id(user_id, application_id) ==
    IF user_id \in DOMAIN users /\ users[user_id].application_id = application_id
    THEN user_id ELSE 0

\* The users whose stored email is `email`, whatever their application.
UserWithEmailAnyApplication(email, application_id) ==
    {u \in DOMAIN users : users[u].email = email}

\* The user of application_id whose stored email is exactly `email`.
UserWithEmail(email, application_id) ==
    {u \in DOMAIN users : users[u].email = email /\ users[u].application_id = application_id}

First(S) == IF S = {} THEN 0 ELSE CHOOSE x \in S : \A y \in S : x <= y

\* crud.get_user_by_email: the direct match first, then the match on the
\* email prefixed with the application's package name.
get_user_by_email(email, application_id) ==
    IF UserWithEmail(email, application_id) # {}
    THEN First(UserWithEmail(email, application_id))
    ELSE First(UserWithEmail(
             prefix_email_with_package(email, applications[application_id].package_name),
             application_id))

\* crud.authenticate
authenticate(email, password, application_id) ==
    LET user == get_user_by_email(email, application_id)
    IN IF user = 0 THEN 0
       ELSE IF ~verify_password(password, users[user].hashed_password) THEN 0
       ELSE user

\* hashed_password of a row created without a password (column NULL).
NoPassword == <<>>

\* The row a User(...) constructor call builds.
UserRow(application_id, email, hashed_password, is_active, is_superuser, is_verified, credit, google_id) ==
    [application_id |-> application_id, email |-> email,
     hashed_password |-> hashed_password, is_active |-> is_active,
     is_superuser |-> is_superuser, is_verified |-> is_verified,
     is_premium |-> FALSE, credit |-> credit, google_id |-> google_id]

\* Column email is unique (User.email unique=True, uix_user_application_email):
\* an INSERT of a second row with the same stored email raises IntegrityError.
EmailTaken(email) == \E u \in DOMAIN users : users[u].email = email

\* crud.create_user builds the row with the email prefixed by the package name.
create_user_row(user_create, application_id) ==
    UserRow(application_id,
            prefix_email_with_package(user_create.email,
                                      applications[application_id].package_name),
            get_password_hash(user_create.password),
            user_create.is_active, user_create.is_superuser, user_create.is_verified,
            user_create.credit, "")

\* session.add(user); session.commit() of a new row: the next id of the table.
NewUserId == nextId.user + 1

\* security.create_access_token / create_refresh_token: claims sub and app.
create_access_token(subject, application_id) ==
    [kind |-> "access", sub |-> subject, app |-> application_id]

create_refresh_token(subject, application_id) ==
    [kind |-> "refresh", sub |-> subject, app |-> application_id]

TokenPair(subject, application_id) ==
    {create_access_token(subject, application_id),
     create_refresh_token(subject, application_id)}

\* ---------------------------------------------------------- credentials
\* Verification.is_expired / ResetPasswordToken.is_expired / Invitation.is_expired
VerificationIsExpired(v) == now > v.expires_at

ResetTokenIsExpired(t) == now > t.expires_at

InvitationIsExpired(i) == now > i.expires_at

\* TTLs in ticks: expiration_minutes=10, expiration_hours=24, expiration_days=7.
VerificationTtl == 1
ResetTokenTtl == 2
InvitationTtl == 3

\* Verification.generate: a fresh row with a random six-digit code.
VerificationGenerate(id, application_id, user_id, code) ==
    [id |-> id, application_id |-> application_id, user_id |-> user_id, code |-> code,
     expires_at |-> now + VerificationTtl, is_verified |-> FALSE]

\* ResetPasswordToken.generate
ResetTokenGenerate(id, application_id, user_id, token) ==
    [id |-> id, application_id |-> application_id, user_id |-> user_id, token |-> token,
     expires_at |-> now + ResetTokenTtl, is_used |-> FALSE]

\* Invitation.generate
InvitationGenerate(id, application_id, email_to, inviter_id, code) ==
    [id |-> id, application_id |-> application_id, inviter_id |-> inviter_id,
     email_to |-> email_to, code |-> code, expires_at |-> now + InvitationTtl,
     is_used |-> FALSE, used_at |-> -1]

\* Invitation.consume
InvitationConsume(i) == [i EXCEPT !.is_used = TRUE, !.used_at = now]

\* The select without the descending order: the row created first.
Latest_created_first(S) == IF S = {} THEN None ELSE CHOOSE x \in S : \A y \in S : x.id <= y.id

\* .order_by(created_at.desc()).first(): ids grow with creation time.
Latest(S) == IF S = {} THEN None ELSE CHOOSE x \in S : \A y \in S : y.id <= x.id

\* .first() without an order: any matching row.
AnyOf(S) == IF S = {} THEN None ELSE CHOOSE x \in S : \A y \in S : x.id <= y.id

\* ------------------------------------------------------- bearer tokens
\* What a client can present as a token: a token the server minted, intact
\* or past its exp claim, or a string that does not decode.
Malformed == [kind |-> "malformed", sub |-> 0, app |-> 0]

Presentable == {[token |-> t, expired |-> e] : t \in tokens \cup {Malformed}, e \in BOOLEAN}

\* jwt.decode(...) raising InvalidTokenError (bad signature, bad format, exp passed).
DecodeFails(p) == p.token = Malformed \/ p.expired

\* get_current_user without the comparison of the token's app claim.
get_current_user_any_application(p, current_application) ==
    IF DecodeFails(p)
    THEN [status |-> 401, detail |-> "invalid_token", user |-> 0]
    ELSE IF p.token.sub \notin DOMAIN users
    THEN [status |-> 404, detail |-> "user_not_found", user |-> 0]
    ELSE IF ~users[p.token.sub].is_active
    THEN [status |-> 400, detail |-> "inactive_user", user |-> 0]
    ELSE [status |-> 200, detail |-> "ok", user |-> p.token.sub]

\* get_current_user without the test of is_active.
get_current_user_inactive_too(p, current_application) ==
    IF DecodeFails(p)
    THEN [status |-> 401, detail |-> "invalid_token", user |-> 0]
    ELSE IF p.token.app # current_application
    THEN [status |-> 401, detail |-> "invalid_token_for_application", user |-> 0]
    ELSE IF get_user_by_id(p.token.sub, current_application) = 0
    THEN [status |-> 404, detail |-> "user_not_found", user |-> 0]
    ELSE [status |-> 200, detail |-> "ok", user |-> p.token.sub]

\* deps.get_current_user: [status, detail, user]; user # 0 only with status 200.
get_current_user(p, current_application) ==
    IF DecodeFails(p)
    THEN [status |-> 401, detail |-> "invalid_token", user |-> 0]
    ELSE IF p.token.app # current_application
    THEN [status |-> 401, detail |-> "invalid_token_for_application", user |-> 0]
    ELSE IF get_user_by_id(p.token.sub, current_application) = 0
    THEN [status |-> 404, detail |-> "user_not_found", user |-> 0]
    ELSE IF ~users[p.token.sub].is_active
    THEN [status |-> 400, detail |-> "inactive_user", user |-> 0]
    ELSE [status |-> 200, detail |-> "ok", user |-> p.token.sub]

\* --------------------------------------------------------------- frames
store == <<applications, users, verifications, reset_tokens, invitations, nextId>>

\* A handler that answers without writing anything.
Answer(r) ==
    /\ resp' = r
    /\ UNCHANGED <<store, now, tokens, requests, ledger, debit, redeem_codes, llm, middleware>>

\* A handler that answers r and mints r.minted, without writing to the store.
AnswerWithTokens(r) ==
    /\ resp' = r
    /\ tokens' = tokens \cup r.minted
    /\ UNCHANGED <<store, now, requests, ledger, debit, redeem_codes, llm, middleware>>

\* ---------------------------------------------------------------- clock
Tick ==
    /\ now < MaxTime
    /\ now' = now + 1
    /\ resp' = Response("tick", NoArgs, 0, "", {}, NoArgs)
    /\ UNCHANGED <<store, tokens, requests, ledger, debit, redeem_codes, llm, middleware>>

\* --------------------------------------------------- POST /verify-email
\* The latest Verification of the user under the application.
LatestVerification(user_id, application) ==
    Latest({v \in verifications : v.user_id = user_id /\ v.application_id = application})

\* verify_email without the test of the record's is_verified.
verify_email_outcome_reusable(application, user_id, code) ==
    LET rec == Latest({v \in verifications :
                          v.user_id = user_id /\ v.application_id = application})
    IN IF get_user_by_id(user_id, application) = 0
       THEN [status |-> 404, detail |-> "user_not_found"]
       ELSE IF rec = None
       THEN [status |-> 404, detail |-> "no_verification_code"]
       ELSE IF VerificationIsExpired(rec)
       THEN [status |-> 410, detail |-> "verification_expired"]
       ELSE IF rec.code # code
       THEN [status |-> 422, detail |-> "invalid_verification_code"]
       ELSE [status |-> 200, detail |-> "email_successfully_verified"]

\* verify_email without the comparison of the code.
verify_email_outcome_any_code(application, user_id, code) ==
    LET rec == Latest({v \in verifications :
                          v.user_id = user_id /\ v.application_id = application})
    IN IF get_user_by_id(user_id, application) = 0
       THEN [status |-> 404, detail |-> "user_not_found"]
       ELSE IF rec = None
       THEN [status |-> 404, detail |-> "no_verification_code"]
       ELSE IF VerificationIsExpired(rec)
       THEN [status |-> 410, detail |-> "verification_expired"]
       ELSE IF rec.is_verified
       THEN [status |-> 409, detail |-> "already_verified"]
       ELSE [status |-> 200, detail |-> "email_successfully_verified"]

\* auth.verify_email: the outcome of the checks, in the order of the code.
verify_email_outcome(application, user_id, code) ==
    LET rec == LatestVerification(user_id, application)
    IN IF get_user_by_id(user_id, application) = 0
       THEN [status |-> 404, detail |-> "user_not_found"]
       ELSE IF rec = None
       THEN [status |-> 404, detail |-> "no_verification_code"]
       ELSE IF VerificationIsExpired(rec)
       THEN [status |-> 410, detail |-> "verification_expired"]
       ELSE IF rec.is_verified
       THEN [status |-> 409, detail |-> "already_verified"]
       ELSE IF rec.code # code
       THEN [status |-> 422, detail |-> "invalid_verification_code"]
       ELSE [status |-> 200, detail |-> "email_successfully_verified"]

VerifyEmail(key, user_id, code) ==
    LET args == [key |-> key, user_id |-> user_id, code |-> code]
        application == get_application_by_package_name(key)
        o == verify_email_outcome(application, user_id, code)
        rec == LatestVerification(user_id, application)
    IN IF application = 0 THEN Answer(TenantRejected("verify_email", args))
       ELSE IF o.status # 200
       THEN Answer(Response("verify_email", args, o.status, o.detail, {}, NoArgs))
       ELSE /\ verifications' = (verifications \ {rec}) \cup {[rec EXCEPT !.is_verified = TRUE]}
            /\ users' = [users EXCEPT ![user_id].is_verified = TRUE]
            /\ resp' = Response("verify_email", args, 200, o.detail, {}, [id |-> rec.id])
            /\ UNCHANGED <<applications, reset_tokens, invitations, nextId, now, tokens,
                           requests, ledger, debit, redeem_codes, llm, middleware>>

\* ------------------------------------------------------------ send_email
\* utils.send_email is called after the commit and raises when the mail
\* cannot be sent (or when no mail configuration is set): the handler ends
\* with that exception in place of the response r it was about to return.
send_email(delivered, r) ==
    IF delivered THEN r ELSE Response(r.op, r.args, 500, "send_email", {}, NoArgs)

\* -------------------------------------------- POST /verify-email-resend
VerifyEmailResend(key, user_id, code) ==
    LET args == [key |-> key, user_id |-> user_id]
        application == get_application_by_package_name(key)
        old == {v \in verifications : v.user_id = user_id /\ v.application_id = application}
    IN IF application = 0 THEN Answer(TenantRejected("verify_email_resend", args))
       ELSE IF get_user_by_id(user_id, application) = 0
       THEN Answer(Response("verify_email_resend", args, 404, "user_not_found", {}, NoArgs))
       ELSE IF users[user_id].is_verified
       THEN Answer(Response("verify_email_resend", args, 200, "account_already_verified", {}, NoArgs))
       ELSE /\ nextId.verification < MaxRecords
            /\ verifications' = (verifications \ old) \cup
                   {VerificationGenerate(nextId.verification + 1, application, user_id, code)}
            /\ nextId' = [nextId EXCEPT !.verification = @ + 1]
            /\ \E delivered \in BOOLEAN :
                  resp' = send_email(delivered,
                                     Response("verify_email_resend", args, 200,
                                              "new_verification_sent", {},
                                              [id |-> nextId.verification + 1]))
            /\ UNCHANGED <<applications, users, reset_tokens, invitations, now, tokens,
                           requests, ledger, debit, redeem_codes, llm, middleware>>

\* ----------------------------------------------- POST /password-recovery
RecoverPassword(key, email, token) ==
    LET args == [key |-> key, email |-> email]
        application == get_application_by_package_name(key)
        user == get_user_by_email(email, application)
        unused == {t \in reset_tokens : /\ t.user_id = user
                                        /\ t.application_id = application
                                        /\ ~t.is_used}
    IN IF application = 0 THEN Answer(TenantRejected("recover_password", args))
       ELSE IF user = 0
       THEN Answer(Response("recover_password", args, 404, "user_not_found", {}, NoArgs))
       ELSE /\ nextId.reset_token < MaxRecords
            /\ reset_tokens' = (reset_tokens \ unused) \cup
                   {ResetTokenGenerate(nextId.reset_token + 1, application, user, token)}
            /\ nextId' = [nextId EXCEPT !.reset_token = @ + 1]
            /\ \E delivered \in BOOLEAN :
                  resp' = send_email(delivered,
                                     Response("recover_password", args, 200,
                                              "Password recovery email sent", {},
                                              [id |-> nextId.reset_token + 1]))
            /\ UNCHANGED <<applications, users, verifications, invitations, now, tokens,
                           requests, ledger, debit, redeem_codes, llm, middleware>>

\* ------------------------------------------------ POST /reset-password/
\* The rows the handler's select can return: same token, same application,
\* not used.  The select has no ORDER BY: .first() is any of them.
ResetCandidates(application, token) ==
    {t \in reset_tokens : /\ t.token = token
                          /\ t.application_id = application
                          /\ ~t.is_used}

\* auth.reset_password, once the select returned token_record.
reset_password_outcome(application, token_record) ==
    IF ResetTokenIsExpired(token_record)
    THEN [status |-> 400, detail |-> "token_expired"]
    ELSE IF get_user_by_id(token_record.user_id, application) = 0
    THEN [status |-> 404, detail |-> "user_not_found"]
    ELSE IF ~users[token_record.user_id].is_active
    THEN [status |-> 400, detail |-> "inactive_user"]
    ELSE [status |-> 200, detail |-> "password_updated"]

ResetPassword(key, token, new_password) ==
    LET args == [key |-> key, token |-> token, new_password |-> new_password]
        application == get_application_by_package_name(key)
    IN IF application = 0 THEN Answer(TenantRejected("reset_password", args))
       ELSE IF ResetCandidates(application, token) = {}
       THEN Answer(Response("reset_password", args, 400, "invalid_token", {}, NoArgs))
       ELSE \E token_record \in ResetCandidates(application, token) :
              LET o == reset_password_outcome(application, token_record)
              IN IF o.status # 200
                 THEN Answer(Response("reset_password", args, o.status, o.detail, {},
                                      [id |-> token_record.id]))
                 ELSE /\ users' = [users EXCEPT ![token_record.user_id].hashed_password =
                                                    get_password_hash(new_password)]
                      /\ reset_tokens' = (reset_tokens \ {token_record}) \cup
                                             {[token_record EXCEPT !.is_used = TRUE]}
                      /\ resp' = Response("reset_password", args, 200, o.detail, {},
                                          [id |-> token_record.id])
                      /\ UNCHANGED <<applications, verifications, invitations, nextId, now,
                                     tokens, requests, ledger, debit, redeem_codes, llm, middleware>>

\* -------------------------------------------------- POST /invite-friend
\* An unused, unexpired invitation for email_to under the application.
ActiveInvites(application, email_to) ==
    {i \in invitations : /\ i.email_to = email_to
                         /\ i.application_id = application
                         /\ ~i.is_used
                         /\ i.expires_at > now}

InviteFriend(key, p, email_to, code) ==
    LET args == [key |-> key, bearer |-> p, email_to |-> email_to]
        application == get_application_by_package_name(key)
        cu == get_current_user(p, application)
    IN IF application = 0 THEN Answer(TenantRejected("invite_friend", args))
       ELSE IF cu.status # 200
       THEN Answer(Response("invite_friend", args, cu.status, cu.detail, {}, NoArgs))
       ELSE IF get_user_by_email(email_to, application) # 0
       THEN Answer(Response("invite_friend", args, 409, "user_exists", {}, NoArgs))
       ELSE IF ActiveInvites(application, email_to) # {}
       THEN \E existing_invite \in ActiveInvites(application, email_to) :
              Answer(Response("invite_friend", args, 200, "existing", {},
                              [id |-> existing_invite.id]))
       ELSE /\ nextId.invitation < MaxRecords
            /\ \A i \in invitations : i.code # code
            /\ invitations' = invitations \cup
                   {InvitationGenerate(nextId.invitation + 1, application, email_to,
                                       cu.user, code)}
            /\ nextId' = [nextId EXCEPT !.invitation = @ + 1]
            /\ \E delivered \in BOOLEAN :
                  resp' = send_email(delivered,
                                     Response("invite_friend", args, 200, "created", {},
                                              [id |-> nextId.invitation + 1]))
            /\ UNCHANGED <<applications, users, verifications, reset_tokens, now, tokens,
                           requests, ledger, debit, redeem_codes, llm, middleware>>

\* ----------------------------------------------------- GET /invite/{code}
\* The select of check_invite without the application filter.
InviteCandidates_any_application(application, code) ==
    {i \in invitations : i.code = code}

InviteCandidates(application, code) ==
    {i \in invitations : i.code = code /\ i.application_id = application}

check_invite_outcome(invitation) ==
    IF invitation = None THEN [is_valid |-> FALSE, message |-> "Invitation not found"]
    ELSE IF invitation.is_used
    THEN [is_valid |-> FALSE, message |-> "Invitation has already been used"]
    ELSE IF InvitationIsExpired(invitation)
    THEN [is_valid |-> FALSE, message |-> "Invitation has expired"]
    ELSE [is_valid |-> TRUE, message |-> "Invitation is valid"]

CheckInvite(key, code) ==
    LET args == [key |-> key, code |-> code]
        application == get_application_by_package_name(key)
    IN IF application = 0 THEN Answer(TenantRejected("check_invite", args))
       ELSE Answer(Response("check_invite", args, 200,
                            check_invite_outcome(AnyOf(InviteCandidates(application, code))).message,
                            {}, check_invite_outcome(AnyOf(InviteCandidates(application, code)))))

\* ------------------------------------------------------------ POST /login
\* auth.login.  The branch for an unverified user calls
\* OTP.generate(email=..., user_id=...) without its required application_id:
\* the call raises and the request ends as a server error.
Login(key, email, password) ==
    LET args == [key |-> key, email |-> email, password |-> password]
        application == get_application_by_package_name(key)
        user == authenticate(email, password, application)
    IN IF application = 0 THEN Answer(TenantRejected("login", args))
       ELSE IF user = 0
       THEN Answer(Response("login", args, 401, "incorrect_credentials", {}, NoArgs))
       ELSE IF ~users[user].is_active
       THEN Answer(Response("login", args, 400, "account_inactive", {}, NoArgs))
       ELSE IF ~users[user].is_verified
       THEN Answer(Response("login", args, 500, "TypeError", {}, NoArgs))
       ELSE AnswerWithTokens(Response("login", args, 200, "ok", TokenPair(user, application),
                                      [user_id |-> user]))

\* ----------------------------------------------------- POST /login-google
\* auth.google_login.  A first login builds the row with the email as given,
\* not prefixed; the unique column rejects a stored email that exists.
GoogleLogin(key, email, google_id) ==
    LET args == [key |-> key, email |-> email, google_id |-> google_id]
        application == get_application_by_package_name(key)
        user == get_user_by_email(email, application)
    IN IF application = 0 THEN Answer(TenantRejected("google_login", args))
       ELSE IF user # 0 /\ users[user].google_id # "" /\ users[user].google_id # google_id
       THEN Answer(Response("google_login", args, 401, "invalid_google_credentials", {}, NoArgs))
       ELSE IF user # 0 /\ ~users[user].is_active
       THEN /\ users' = [users EXCEPT ![user].google_id = google_id]
            /\ resp' = Response("google_login", args, 400, "inactive_user", {}, NoArgs)
            /\ UNCHANGED <<applications, verifications, reset_tokens, invitations, nextId,
                           now, tokens, requests, ledger, debit, redeem_codes, llm, middleware>>
       ELSE IF user # 0
       THEN /\ users' = [users EXCEPT ![user].google_id = google_id,
                                      ![user].is_verified = TRUE]
            /\ resp' = Response("google_login", args, 200, "ok", TokenPair(user, application),
                                [user_id |-> user])
            /\ tokens' = tokens \cup TokenPair(user, application)
            /\ UNCHANGED <<applications, verifications, reset_tokens, invitations, nextId,
                           now, requests, ledger, debit, redeem_codes, llm, middleware>>
       ELSE IF EmailTaken(email)
       THEN Answer(Response("google_login", args, 500, "IntegrityError", {}, NoArgs))
       ELSE /\ nextId.user < MaxUsers
            /\ users' = [u \in DOMAIN users \cup {NewUserId} |->
                           IF u = NewUserId
                           THEN UserRow(application, email, NoPassword, TRUE, FALSE, TRUE,
                                        applications[application].default_user_credit, google_id)
                           ELSE users[u]]
            /\ nextId' = [nextId EXCEPT !.user = @ + 1]
            /\ resp' = Response("google_login", args, 200, "created",
                                TokenPair(NewUserId, application), [user_id |-> NewUserId])
            /\ tokens' = tokens \cup TokenPair(NewUserId, application)
            /\ UNCHANGED <<applications, verifications, reset_tokens, invitations, now,
                           requests, ledger, debit, redeem_codes, llm, middleware>>

\* ---------------------------------------------------- POST /refresh-token
\* auth.refresh_access_token: [status, detail, user] of the checks before
\* the verified check.
refresh_outcome(p, application) ==
    IF DecodeFails(p)
    THEN [status |-> 401, detail |-> "invalid_token", user |-> 0]
    ELSE IF p.token.app # application
    THEN [status |-> 401, detail |-> "invalid_token_for_application", user |-> 0]
    ELSE IF get_user_by_id(p.token.sub, application) = 0
    THEN [status |-> 404, detail |-> "user_not_found", user |-> 0]
    ELSE IF ~users[p.token.sub].is_active
    THEN [status |-> 400, detail |-> "inactive_user", user |-> 0]
    ELSE [status |-> 200, detail |-> "ok", user |-> p.token.sub]

RefreshToken(key, p, code) ==
    LET args == [key |-> key, bearer |-> p]
        application == get_application_by_package_name(key)
        o == refresh_outcome(p, application)
    IN IF application = 0 THEN Answer(TenantRejected("refresh_token", args))
       ELSE IF o.status # 200
       THEN Answer(Response("refresh_token", args, o.status, o.detail, {}, NoArgs))
       ELSE IF ~users[o.user].is_verified
       THEN /\ nextId.verification < MaxRecords
            /\ verifications' = verifications \cup
                   {VerificationGenerate(nextId.verification + 1, application, o.user, code)}
            /\ nextId' = [nextId EXCEPT !.verification = @ + 1]
            /\ resp' = Response("refresh_token", args, 403, "account_not_verified", {},
                                [id |-> nextId.verification + 1])
            /\ UNCHANGED <<applications, users, reset_tokens, invitations, now, tokens,
                           requests, ledger, debit, redeem_codes, llm, middleware>>
       ELSE AnswerWithTokens(Response("refresh_token", args, 200, "ok",
                                      TokenPair(o.user, application), [user_id |-> o.user]))

\* ----------------------------------------------------------- GET /users/me
\* users.read_user_me: any handler that only depends on get_current_user.
ReadUserMe(key, p) ==
    LET args == [key |-> key, bearer |-> p]
        application == get_application_by_package_name(key)
        cu == get_current_user(p, application)
    IN IF application = 0 THEN Answer(TenantRejected("read_user_me", args))
       ELSE Answer(Response("read_user_me", args, cu.status, cu.detail, {},
                            [user_id |-> cu.user]))

\* --------------------------------------------------------- credit grants
\* credit.add_credit
AddCredit(key, p, amount) ==
    LET args == [key |-> key, bearer |-> p, amount |-> amount]
        application == get_application_by_package_name(key)
        cu == get_current_user(p, application)
    IN IF application = 0 THEN Answer(TenantRejected("add_credit", args))
       ELSE IF cu.status # 200
       THEN Answer(Response("add_credit", args, cu.status, cu.detail, {}, NoArgs))
       ELSE IF amount <= 0
       THEN Answer(Response("add_credit", args, 400, "invalid_credit_amount", {}, NoArgs))
       ELSE /\ users[cu.user].credit + amount <= MaxCredit
            /\ users' = [users EXCEPT ![cu.user].credit = @ + amount]
            /\ resp' = Response("add_credit", args, 200, "ok", {},
                                [current_credit |-> users[cu.user].credit + amount])
            /\ UNCHANGED <<applications, verifications, reset_tokens, invitations, nextId,
                           now, tokens, requests, ledger, debit, redeem_codes, llm, middleware>>

\* users.add_credit_from_ad; CreditAddRequest.amount has gt=0, lt=10.
AddCreditFromAd(key, p, amount) ==
    LET args == [key |-> key, bearer |-> p, amount |-> amount]
        application == get_application_by_package_name(key)
        cu == get_current_user(p, application)
    IN IF application = 0 THEN Answer(TenantRejected("add_credit_from_ad", args))
       ELSE IF cu.status # 200
       THEN Answer(Response("add_credit_from_ad", args, cu.status, cu.detail, {}, NoArgs))
       ELSE IF ~(amount > AdAmountLow /\ amount < AdAmountHigh)
       THEN Answer(Response("add_credit_from_ad", args, 422, "validation", {}, NoArgs))
       ELSE /\ users[cu.user].credit + amount <= MaxCredit
            /\ users' = [users EXCEPT ![cu.user].credit = @ + amount]
            /\ resp' = Response("add_credit_from_ad", args, 200, "ok", {},
                                [current_credit |-> users[cu.user].credit + amount])
            /\ UNCHANGED <<applications, verifications, reset_tokens, invitations, nextId,
                           now, tokens, requests, ledger, debit, redeem_codes, llm, middleware>>

\* ------------------------------------------------------ requests in flight
Idle == [op |-> "idle"]

AllIdle == \A r \in RequestIds : requests[r] = Idle

\* invitation_check without the test of is_used.
invitation_check_reusable(application, invite_code, inviter_id) ==
    LET found == AnyOf({i \in invitations : /\ i.code = invite_code
                                            /\ i.inviter_id = inviter_id
                                            /\ i.application_id = application})
    IN IF ~(invite_code # "" /\ inviter_id # 0)
       THEN [status |-> 200, detail |-> "no_invitation", invitation |-> None]
       ELSE IF found = None
       THEN [status |-> 404, detail |-> "invalid_token", invitation |-> None]
       ELSE IF InvitationIsExpired(found)
       THEN [status |-> 400, detail |-> "invitation_code_expired", invitation |-> found]
       ELSE [status |-> 200, detail |-> "ok", invitation |-> found]

\* The checks of the invitation without the test of its expiry.
invitation_check_unexpiring(application, invite_code, inviter_id) ==
    LET found == AnyOf({i \in invitations : /\ i.code = invite_code
                                            /\ i.inviter_id = inviter_id
                                            /\ i.application_id = application})
    IN IF ~(invite_code # "" /\ inviter_id # 0)
       THEN [status |-> 200, detail |-> "no_invitation", invitation |-> None]
       ELSE IF found = None
       THEN [status |-> 404, detail |-> "invalid_token", invitation |-> None]
       ELSE IF found.is_used
       THEN [status |-> 400, detail |-> "invitation_code_used", invitation |-> found]
       ELSE [status |-> 200, detail |-> "ok", invitation |-> found]

\* ------------------------------------------------------- POST /register
\* auth.register lines 345-371 (and google_register 453-479): the invitation
\* the request names, and the outcome of its checks.  invitation is the row
\* found, None when the request names none or none is found.
invitation_check(application, invite_code, inviter_id) ==
    LET found == AnyOf({i \in invitations : /\ i.code = invite_code
                                            /\ i.inviter_id = inviter_id
                                            /\ i.application_id = application})
    IN IF ~(invite_code # "" /\ inviter_id # 0)
       THEN [status |-> 200, detail |-> "no_invitation", invitation |-> None]
       ELSE IF found = None
       THEN [status |-> 404, detail |-> "invalid_token", invitation |-> None]
       ELSE IF found.is_used
       THEN [status |-> 400, detail |-> "invitation_code_used", invitation |-> found]
       ELSE IF InvitationIsExpired(found)
       THEN [status |-> 400, detail |-> "invitation_code_expired", invitation |-> found]
       ELSE [status |-> 200, detail |-> "ok", invitation |-> found]

\* auth.register lines 378-383: the credit the new row gets.
register_credit(application, payload_credit, invited) ==
    LET c == IF invited THEN applications[application].default_user_credit * 2
             ELSE payload_credit
    IN IF c = ModelDefaultCredit THEN applications[application].default_user_credit ELSE c

\* The UPDATE that flushes a consumed invitation: by primary key.
FlushInvitation(invitation) ==
    {IF i.id = invitation.id
     THEN [i EXCEPT !.is_used = invitation.is_used, !.used_at = invitation.used_at]
     ELSE i : i \in invitations}

InsertUser(row) ==
    [u \in DOMAIN users \cup {NewUserId} |-> IF u = NewUserId THEN row ELSE users[u]]

\* Lines 331-383: the reads and the changes held in the session.
RegisterBegin(r, key, user_create) ==
    LET args == [key |-> key, user_create |-> user_create]
        application == get_application_by_package_name(key)
        chk == invitation_check(application, user_create.invite_code, user_create.inviter_id)
        invited == chk.invitation # None
    IN /\ requests[r] = Idle
       /\ IF application = 0 THEN Answer(TenantRejected("register", args))
          ELSE IF get_user_by_email(user_create.email, application) # 0
          THEN Answer(Response("register", args, 409, "user_exists", {}, NoArgs))
          ELSE IF chk.status # 200
          THEN Answer(Response("register", args, chk.status, chk.detail, {}, NoArgs))
          ELSE /\ requests' = [requests EXCEPT ![r] =
                      [op |-> "register", stage |-> "create", args |-> args,
                       application |-> application,
                       user_create |-> [user_create EXCEPT !.credit =
                                           register_credit(application, user_create.credit, invited)],
                       invitation |-> IF invited THEN InvitationConsume(chk.invitation) ELSE None,
                       new_user |-> 0]]
               /\ resp' = Response("register.begin", args, 0, "", {}, NoArgs)
               /\ UNCHANGED <<store, now, tokens, ledger, debit, redeem_codes, llm, middleware>>

\* Line 389, crud.create_user: the first commit.  It inserts the user and
\* flushes the consumed invitation; a duplicate stored email rolls both back.
RegisterCreate(r) ==
    LET q == requests[r]
        row == create_user_row(q.user_create, q.application)
    IN /\ q.op \in {"register", "google_register"}
       /\ q.stage = "create"
       /\ IF EmailTaken(row.email)
          THEN /\ requests' = [requests EXCEPT ![r] = Idle]
               /\ resp' = Response(q.op, q.args, 500, "IntegrityError", {}, NoArgs)
               /\ UNCHANGED <<store, now, tokens, ledger, debit, redeem_codes, llm, middleware>>
          ELSE /\ nextId.user < MaxUsers
               /\ users' = InsertUser(row)
               /\ nextId' = [nextId EXCEPT !.user = @ + 1]
               /\ invitations' = IF q.invitation = None THEN invitations
                                 ELSE FlushInvitation(q.invitation)
               /\ ledger' = IF q.invitation = None THEN ledger
                            ELSE [ledger EXCEPT !.invites[q.invitation.id].uses = @ + 1]
               /\ requests' = [requests EXCEPT ![r].stage = "finish", ![r].new_user = NewUserId]
               /\ resp' = Response(q.op \o ".create", q.args, 0, "", {}, NoArgs)
               /\ UNCHANGED <<applications, verifications, reset_tokens, now, tokens, debit, redeem_codes, llm, middleware>>

\* The inviter bonus, lines 392-400 (google_register 513-522).
InviterBonus(q) ==
    LET inviter_user == get_user_by_id(q.user_create.inviter_id, q.application)
    IN IF q.invitation # None /\ inviter_user # 0
       THEN applications[q.application].default_user_credit
       ELSE 0

\* Lines 391-424: the inviter bonus and the verification, the second commit.
RegisterFinish(r, code) ==
    LET q == requests[r]
        bonus == InviterBonus(q)
        inviter == q.user_create.inviter_id
    IN /\ q.op = "register"
       /\ q.stage = "finish"
       /\ nextId.verification < MaxRecords
       /\ users' = IF bonus = 0 THEN users
                   ELSE [users EXCEPT ![inviter].credit = @ + bonus]
       /\ ledger' = IF q.invitation = None \/ get_user_by_id(inviter, q.application) = 0
                    THEN ledger
                    ELSE [ledger EXCEPT !.invites[q.invitation.id].grants = @ + 1]
       /\ verifications' = verifications \cup
              {VerificationGenerate(nextId.verification + 1, q.application, q.new_user, code)}
       /\ nextId' = [nextId EXCEPT !.verification = @ + 1]
       /\ requests' = [requests EXCEPT ![r] = Idle]
       /\ \E delivered \in BOOLEAN :
             resp' = send_email(delivered,
                                Response("register", q.args, 200, "ok", {},
                                         [user_id |-> q.new_user]))
       /\ UNCHANGED <<applications, reset_tokens, invitations, now, tokens, debit, redeem_codes, llm, middleware>>

\* ------------------------------------------------ POST /register-google
\* auth.google_register lines 436-501.
GoogleRegisterBegin(r, key, user_google) ==
    LET args == [key |-> key, user_google |-> user_google]
        application == get_application_by_package_name(key)
        chk == invitation_check(application, user_google.invite_code, user_google.inviter_id)
        invited == chk.invitation # None
    IN /\ requests[r] = Idle
       /\ IF application = 0 THEN Answer(TenantRejected("google_register", args))
          ELSE IF get_user_by_email(user_google.email, application) # 0
          THEN Answer(Response("google_register", args, 409, "user_exists", {}, NoArgs))
          ELSE IF chk.status # 200
          THEN Answer(Response("google_register", args, chk.status, chk.detail, {}, NoArgs))
          ELSE /\ requests' = [requests EXCEPT ![r] =
                      [op |-> "google_register", stage |-> "create", args |-> args,
                       application |-> application,
                       user_create |-> [email |-> user_google.email, password |-> "",
                                        is_superuser |-> FALSE, is_active |-> TRUE,
                                        is_verified |-> TRUE,
                                        credit |-> IF invited
                                                   THEN applications[application].default_user_credit * 2
                                                   ELSE applications[application].default_user_credit,
                                        invite_code |-> user_google.invite_code,
                                        inviter_id |-> user_google.inviter_id],
                       invitation |-> IF invited THEN InvitationConsume(chk.invitation) ELSE None,
                       new_user |-> 0]]
               /\ resp' = Response("google_register.begin", args, 0, "", {}, NoArgs)
               /\ UNCHANGED <<store, now, tokens, ledger, debit, redeem_codes, llm, middleware>>

\* Lines 506-542: the google id, the inviter bonus, the tokens.
GoogleRegisterFinish(r) ==
    LET q == requests[r]
        bonus == InviterBonus(q)
        inviter == q.user_create.inviter_id
        withGoogle == [users EXCEPT ![q.new_user].google_id = q.args.user_google.google_id]
    IN /\ q.op = "google_register"
       /\ q.stage = "finish"
       /\ users' = IF bonus = 0 THEN withGoogle
                   ELSE [withGoogle EXCEPT ![inviter].credit = @ + bonus]
       /\ ledger' = IF q.invitation = None \/ get_user_by_id(inviter, q.application) = 0
                    THEN ledger
                    ELSE [ledger EXCEPT !.invites[q.invitation.id].grants = @ + 1]
       /\ requests' = [requests EXCEPT ![r] = Idle]
       /\ resp' = Response("google_register", q.args, 200, "ok",
                           TokenPair(q.new_user, q.application), [user_id |-> q.new_user])
       /\ tokens' = tokens \cup TokenPair(q.new_user, q.application)
       /\ UNCHANGED <<applications, verifications, reset_tokens, invitations, nextId, now, debit, redeem_codes, llm, middleware>>

\* ----------------------------------------------------------- priced chat
\* crud.decrease_user_credit: user.credit -= amount on the row the session
\* holds; the commit writes the resulting value.
decrease_user_credit(credit, amount) == credit - amount

\* ChatBusinessLogic.calculate_credit_cost, and chat_endpoint line 60.
calculate_credit_cost(has_sources) == IF has_sources THEN 2 ELSE 1

\* process_credit_deduction with the amount subtracted as asked, not capped
\* at the balance.
process_credit_deduction_uncapped(credit, is_premium, credit_cost) ==
    IF is_premium
    THEN [written |-> FALSE, credit |-> credit, remaining |-> credit, sufficient |-> TRUE]
    ELSE [written |-> TRUE, credit |-> credit - credit_cost,
          remaining |-> credit - credit_cost, sufficient |-> credit >= credit_cost]

\* ChatBusinessLogic.process_credit_deduction on a user row with this credit:
\* written says whether decrease_user_credit ran, credit is the row's value
\* afterwards, remaining and sufficient are the values returned.
process_credit_deduction(credit, is_premium, credit_cost) ==
    LET deduction_amount == Min(credit, credit_cost)
        is_credit_sufficient == credit >= credit_cost
    IN IF is_premium
       THEN [written |-> FALSE, credit |-> credit, remaining |-> credit, sufficient |-> TRUE]
       ELSE IF deduction_amount > 0
       THEN [written |-> TRUE, credit |-> decrease_user_credit(credit, deduction_amount),
             remaining |-> decrease_user_credit(credit, deduction_amount),
             sufficient |-> is_credit_sufficient]
       ELSE [written |-> FALSE, credit |-> credit, remaining |-> credit,
             sufficient |-> is_credit_sufficient]

\* chat_endpoint's debit without the test of is_premium.
chat_endpoint_debit_premium_pays(credit, is_premium, sources) ==
    LET credit_cost == calculate_credit_cost(sources)
    IN IF credit < credit_cost
       THEN IF credit > 0
            THEN [written |-> TRUE, credit |-> decrease_user_credit(credit, credit),
                  remaining |-> 0, sufficient |-> FALSE]
            ELSE [written |-> FALSE, credit |-> credit, remaining |-> credit,
                  sufficient |-> FALSE]
       ELSE [written |-> TRUE, credit |-> decrease_user_credit(credit, credit_cost),
             remaining |-> decrease_user_credit(credit, credit_cost), sufficient |-> TRUE]

\* chat.chat_endpoint lines 43-73 on a user row with this credit.
chat_endpoint_debit(credit, is_premium, sources) ==
    LET credit_cost == calculate_credit_cost(sources)
    IN IF is_premium
       THEN [written |-> FALSE, credit |-> credit, remaining |-> credit, sufficient |-> TRUE]
       ELSE IF credit < credit_cost
       THEN IF credit > 0
            THEN [written |-> TRUE, credit |-> decrease_user_credit(credit, credit),
                  remaining |-> 0, sufficient |-> FALSE]
            ELSE [written |-> FALSE, credit |-> credit, remaining |-> credit,
                  sufficient |-> FALSE]
       ELSE [written |-> TRUE, credit |-> decrease_user_credit(credit, credit_cost),
             remaining |-> decrease_user_credit(credit, credit_cost), sufficient |-> TRUE]

\* chat_endpoint up to the call of the chat service: get_current_user and
\* session.get(User, ...) load the user row into the request's session.
ChatBegin(r, key, p) ==
    LET args == [key |-> key, bearer |-> p]
        application == get_application_by_package_name(key)
        cu == get_current_user(p, application)
    IN /\ requests[r] = Idle
       /\ ledger.chats < MaxChats
       /\ IF application = 0 THEN Answer(TenantRejected("chat", args))
          ELSE IF cu.status # 200
          THEN Answer(Response("chat", args, cu.status, cu.detail, {}, NoArgs))
          ELSE /\ requests' = [requests EXCEPT ![r] =
                      [op |-> "chat", stage |-> "service", args |-> args, user |-> cu.user,
                       credit |-> users[cu.user].credit,
                       is_premium |-> users[cu.user].is_premium]]
               /\ resp' = Response("chat.begin", args, 0, "", {}, NoArgs)
               /\ ledger' = [ledger EXCEPT !.chats = @ + 1]
               /\ UNCHANGED <<store, now, tokens, debit, redeem_codes, llm, middleware>>

\* The chat service answered (with or without sources): the debit is worked
\* out on the row the session loaded and committed.
ChatFinish(r, sources) ==
    LET q == requests[r]
        d == chat_endpoint_debit(q.credit, q.is_premium, sources)
    IN /\ q.op = "chat"
       /\ users' = IF d.written THEN [users EXCEPT ![q.user].credit = d.credit] ELSE users
       /\ requests' = [requests EXCEPT ![r] = Idle]
       /\ resp' = Response("chat", q.args, 200, "ok", {},
                           [user_id |-> q.user, read_credit |-> q.credit,
                            cost |-> calculate_credit_cost(sources),
                            remaining_credit |-> d.remaining,
                            is_credit_sufficient |-> d.sufficient])
       /\ ledger' = IF q.is_premium THEN ledger
                    ELSE [ledger EXCEPT !.debits[q.user] = @ + calculate_credit_cost(sources)]
       /\ UNCHANGED <<applications, verifications, reset_tokens, invitations, nextId, now,
                      tokens, debit, redeem_codes, llm, middleware>>

\* One call of process_credit_deduction / of the endpoint's debit on a row
\* with credit debit.credit.
DebitLogic(credit_cost) ==
    /\ debit.done = FALSE
    /\ debit' = [debit EXCEPT !.done = TRUE, !.by = "process_credit_deduction",
                              !.cost = credit_cost,
                              !.result = process_credit_deduction(debit.credit, debit.is_premium,
                                                                  credit_cost)]
    /\ UNCHANGED <<store, now, tokens, requests, resp, ledger, redeem_codes, llm, middleware>>

DebitEndpoint(sources) ==
    /\ debit.done = FALSE
    /\ debit' = [debit EXCEPT !.done = TRUE, !.by = "chat_endpoint",
                              !.cost = calculate_credit_cost(sources),
                              !.result = chat_endpoint_debit(debit.credit, debit.is_premium,
                                                             sources)]
    /\ UNCHANGED <<store, now, tokens, requests, resp, ledger, redeem_codes, llm, middleware>>

\* A further debit on the row the previous one left.
DebitAgain ==
    /\ debit.done = TRUE
    /\ debit' = [debit EXCEPT !.done = FALSE, !.credit = debit.result.credit]
    /\ UNCHANGED <<store, now, tokens, requests, resp, ledger, redeem_codes, llm, middleware>>

\* ------------------------------------------ POST /users/signup, POST /users/
\* users.register_user: UserCreate.model_validate(user_in) keeps email and
\* password and takes the defaults of UserCreate for the rest.
Signup(key, email, password, code) ==
    LET args == [key |-> key, email |-> email, password |-> password]
        application == get_application_by_package_name(key)
        user_create == [email |-> email, password |-> password, is_superuser |-> FALSE,
                        is_active |-> TRUE, is_verified |-> FALSE,
                        credit |-> ModelDefaultCredit, invite_code |-> "", inviter_id |-> 0]
        row == create_user_row(user_create, application)
    IN IF application = 0 THEN Answer(TenantRejected("signup", args))
       ELSE IF get_user_by_email(email, application) # 0
       THEN Answer(Response("signup", args, 400, "user_with_email_exists", {}, NoArgs))
       ELSE IF EmailTaken(row.email)
       THEN Answer(Response("signup", args, 500, "IntegrityError", {}, NoArgs))
       ELSE /\ nextId.user < MaxUsers
            /\ nextId.verification < MaxRecords
            /\ users' = InsertUser(row)
            /\ verifications' = verifications \cup
                   {VerificationGenerate(nextId.verification + 1, application, NewUserId, code)}
            /\ nextId' = [nextId EXCEPT !.user = @ + 1, !.verification = @ + 1]
            /\ resp' = Response("signup", args, 200, "ok", {}, [user_id |-> NewUserId])
            /\ UNCHANGED <<applications, reset_tokens, invitations, now, tokens, requests,
                           ledger, debit, redeem_codes, llm, middleware>>

\* users.create_user: a superuser creates a user in the current application.
AdminCreateUser(key, p, user_create) ==
    LET args == [key |-> key, bearer |-> p, user_create |-> user_create]
        application == get_application_by_package_name(key)
        cu == get_current_user(p, application)
        row == create_user_row(user_create, application)
    IN IF application = 0 THEN Answer(TenantRejected("create_user", args))
       ELSE IF cu.status # 200
       THEN Answer(Response("create_user", args, cu.status, cu.detail, {}, NoArgs))
       ELSE IF ~users[cu.user].is_superuser
       THEN Answer(Response("create_user", args, 403, "not_enough_privileges", {}, NoArgs))
       ELSE IF get_user_by_email(user_create.email, application) # 0
       THEN Answer(Response("create_user", args, 400, "user_with_email_exists", {}, NoArgs))
       ELSE IF EmailTaken(row.email)
       THEN Answer(Response("create_user", args, 500, "IntegrityError", {}, NoArgs))
       ELSE /\ nextId.user < MaxUsers
            /\ users' = InsertUser(row)
            /\ nextId' = [nextId EXCEPT !.user = @ + 1]
            /\ resp' = Response("create_user", args, 200, "ok", {}, [user_id |-> NewUserId])
            /\ UNCHANGED <<applications, verifications, reset_tokens, invitations, now,
                           tokens, requests, ledger, debit, redeem_codes, llm, middleware>>

\* ---------------------------------------------------------- initial states
\* Two active applications; the second has another default_user_credit.
Applications0 ==
    [a \in AppIds |->
        IF a = 1
        THEN [package_name |-> PackageP, is_active |-> TRUE, default_user_credit |-> 10]
        ELSE [package_name |-> PackageQ, is_active |-> TRUE, default_user_credit |-> 5]]

\* The row register leaves for an active user: email prefixed, password hashed.
Registered(application_id, email, password, is_superuser, is_verified, credit) ==
    UserRow(application_id,
            prefix_email_with_package(email, Applications0[application_id].package_name),
            get_password_hash(password), TRUE, is_superuser, is_verified, credit, "")

NoRequests == [r \in RequestIds |-> Idle]

NoResult == [written |-> FALSE, credit |-> 0, remaining |-> 0, sufficient |-> TRUE]

NoDebit ==
    [credit |-> 0, is_premium |-> FALSE, done |-> FALSE, by |-> "", cost |-> 0,
     result |-> NoResult]

Ledger0(users0) ==
    [invites |-> [i \in 1..MaxRecords |-> [uses |-> 0, grants |-> 0]],
     opening |-> [u \in UserIds |-> IF u \in DOMAIN users0 THEN users0[u].credit ELSE 0],
     debits |-> [u \in UserIds |-> 0],
     chats |-> 0]

\* --------------------------------------------------- assistant registry
\* A str by what lower() and strip() look at: its letters, whether some are
\* upper case, and the blanks before and after them.
Str(base, upper, lead, trail) == [base |-> base, upper |-> upper, lead |-> lead, trail |-> trail]

lower(s) == [s EXCEPT !.upper = FALSE]

strip(s) == [s EXCEPT !.lead = 0, !.trail = 0]

\* `not s`: the empty str.
IsEmptyStr(s) == s.base = "" /\ s.lead = 0 /\ s.trail = 0

\* Values of a config dict: a number (temperature, in tenths), a text by its
\* length and the blanks strip() removes, a nested list by reference.
Num(n) == [kind |-> "number", n |-> n]

Text(len, blanks) == [kind |-> "str", len |-> len, blanks |-> blanks]

ListRef(ref) == [kind |-> "list", ref |-> ref]

ASSISTANT_TYPE_DOCTOR == Str("doctor", FALSE, 0, 0)
ASSISTANT_TYPE_LEGAL == Str("legal", FALSE, 0, 0)
ASSISTANT_TYPE_GENERAL == Str("general", FALSE, 0, 0)

\* The built-in entries (three of the six; the others have the same shape).
BuiltInConfigs ==
    (ASSISTANT_TYPE_DOCTOR :> [name |-> Text(16, 0), system_prompt |-> Text(1500, 20),
                               temperature |-> Num(7)]) @@
    (ASSISTANT_TYPE_LEGAL :> [name |-> Text(15, 0), system_prompt |-> Text(1100, 20),
                              temperature |-> Num(5)]) @@
    (ASSISTANT_TYPE_GENERAL :> [name |-> Text(17, 0), system_prompt |-> Text(900, 20),
                                temperature |-> Num(7)])

NoConfig == [none |-> TRUE]

\* Module load: the built-in registry, no ASSISTANT_CONFIG_PATH.
InitAssistants ==
    /\ ASSISTANT_CONFIGS = BuiltInConfigs
    /\ objects = <<>>
    /\ config = NoConfig

\* RateLimitMiddleware.__init__
InitRateLimit ==
    /\ request_records = <<>>
    /\ forwarded = <<>>

\* The store holding these rows, the tokens tokens0 handed out, no request
\* in flight.
InitStore(users0, verifications0, reset_tokens0, invitations0, tokens0) ==
    /\ now = 0
    /\ applications = Applications0
    /\ users = users0
    /\ verifications = verifications0
    /\ reset_tokens = reset_tokens0
    /\ invitations = invitations0
    /\ nextId = [user |-> Cardinality(DOMAIN users0),
                 verification |-> Cardinality(verifications0),
                 reset_token |-> Cardinality(reset_tokens0),
                 invitation |-> Cardinality(invitations0)]
    /\ tokens = tokens0
    /\ requests = NoRequests
    /\ resp = Response("init", NoArgs, 0, "", {}, NoArgs)
    /\ ledger = Ledger0(users0)
    /\ redeem_codes = {}
    /\ InitAssistants
    /\ InitRateLimit

InitWith(users0, invitations0, tokens0) ==
    /\ InitStore(users0, {}, {}, invitations0, tokens0)
    /\ debit = NoDebit

\* One registered, verified user of the first application.
OneUser(credit) == (1 :> Registered(1, EmailA, "pw1", FALSE, TRUE, credit))

\* ------------------------------------------------- the debit as a function
\* process_credit_deduction and the endpoint's debit, applied to every credit
\* 0..MaxCredit, premium or not, and every cost 0..MaxCost.
InitDebit ==
    /\ InitStore(OneUser(10), {}, {}, {}, {})
    /\ \E c \in 0..MaxCredit, b \in BOOLEAN :
          debit = [NoDebit EXCEPT !.credit = c, !.is_premium = b]

DebitByLogic == \E credit_cost \in 0..MaxCost : DebitLogic(credit_cost)

DebitByEndpoint == \E sources \in BOOLEAN : DebitEndpoint(sources)

NextDebit == DebitByLogic \/ DebitByEndpoint \/ DebitAgain

SpecDebit == InitDebit /\ [][NextDebit]_vars

StoredEmails == {prefix_email_with_package(e, k) : e \in Emails, k \in {PackageP, PackageQ}}

\* a@x registered under both applications with different passwords, b@x
\* registered under the first application only.
UsersOfTwoTenants ==
    (1 :> Registered(1, EmailA, "pw1", FALSE, TRUE, 10)) @@
    (2 :> Registered(2, EmailA, "pw2", FALSE, TRUE, 5)) @@
    (3 :> Registered(1, EmailB, "pw1", FALSE, TRUE, 10))

InitTokens == InitWith(UsersOfTwoTenants, {}, {})

DoLogin ==
    \E key \in Keys, email \in Emails \cup StoredEmails, password \in Passwords :
        Login(key, email, password)

DoGoogleLogin == \E key \in Keys, email \in Emails : GoogleLogin(key, email, "g1")

DoRefreshToken == \E key \in Keys, p \in Presentable : RefreshToken(key, p, "000111")

DoReadUserMe == \E key \in Keys, p \in Presentable : ReadUserMe(key, p)

NextTokens == DoLogin \/ DoGoogleLogin \/ DoRefreshToken \/ DoReadUserMe

SpecTokens == InitTokens /\ [][NextTokens]_vars

\* The handlers that take the bearer (or refresh) token of the request.
BearerOps == {"read_user_me", "refresh_token"}

\* C1: a request that presents a token minted for one application and is
\* resolved against another application is answered 401 (the token is
\* invalid for the application) without returning a user, without minting
\* tokens and without writing: get_current_user and refresh-token alike.
C1_TokenTenantIsolation ==
    [][(/\ resp'.op \in BearerOps
        /\ get_application_by_package_name(resp'.args.key) # 0
        /\ resp'.args.bearer.token \in tokens
        /\ resp'.args.bearer.token.app # get_application_by_package_name(resp'.args.key))
       => (/\ resp'.status = 401
           /\ resp'.detail \in {"invalid_token", "invalid_token_for_application"}
           /\ resp'.minted = {}
           /\ resp'.out = NoArgs \/ resp'.out.user_id = 0
           /\ tokens' = tokens
           /\ UNCHANGED store)]_vars

\* A live token of the first application presented to /users/me under the
\* second application's key.
C1_Witness ==
    /\ resp.op = "read_user_me"
    /\ resp.args.key = PackageQ
    /\ resp.args.bearer.token \in tokens
    /\ resp.args.bearer.token.app = 1
    /\ ~resp.args.bearer.expired
    /\ resp.detail = "invalid_token_for_application"

\* Some user of another application than `application` has this email
\* (stored or real) and this password.
KnownElsewhere(email, password, application) ==
    \E u \in DOMAIN users :
        /\ users[u].application_id # application
        /\ users[u].email = email \/ extract_real_email(users[u].email) = email
        /\ verify_password(password, users[u].hashed_password)

\* Some user of `application` has the real email of `email`.
RegisteredIn(email, application) ==
    \E u \in DOMAIN users :
        /\ users[u].application_id = application
        /\ extract_real_email(users[u].email) = extract_real_email(email)

\* C10: a login resolved to an application with the email and the password of
\* a user of another application only returns no tokens, and
\* get_user_by_email never returns a user of another application than the
\* one it is asked for.
C10_NoCrossTenantLogin ==
    /\ [](\A a \in AppIds, e \in Emails \cup StoredEmails :
             LET found == get_user_by_email(e, a)
             IN found # 0 => users[found].application_id = a)
    /\ [][(/\ resp'.op = "login"
           /\ get_application_by_package_name(resp'.args.key) # 0
           /\ KnownElsewhere(resp'.args.email, resp'.args.password,
                             get_application_by_package_name(resp'.args.key))
           /\ ~RegisteredIn(resp'.args.email,
                            get_application_by_package_name(resp'.args.key)))
          => (resp'.status = 401 /\ resp'.minted = {} /\ tokens' = tokens)]_vars

\* b@x is registered under the first application only; its stored email and
\* its password are presented under the second application's key.
C10_Witness ==
    /\ resp.op = "login"
    /\ resp.args.key = PackageQ
    /\ resp.args.email = prefix_email_with_package(EmailB, PackageP)
    /\ resp.args.password = "pw1"
    /\ resp.status = 401
    /\ \E u \in DOMAIN users : /\ users[u].email = resp.args.email
                               /\ users[u].application_id = 1
                               /\ verify_password("pw1", users[u].hashed_password)
    /\ ~RegisteredIn(EmailB, 2)

\* ------------------------------------------------ concurrent priced chats
\* One user with some credit who holds tokens; chat requests overlap.
InitChat ==
    \E c \in 0..3 : InitWith(OneUser(c), {}, TokenPair(1, 1))

DoChatBegin ==
    \E r \in RequestIds, key \in {PackageP, PackageQ}, p \in Presentable : ChatBegin(r, key, p)

DoChatFinish == \E r \in RequestIds, sources \in BOOLEAN : ChatFinish(r, sources)

NextChat == DoChatBegin \/ DoChatFinish

SpecChat == InitChat /\ [][NextChat]_vars

\* C4: debits on one balance are linearizable: once the chat requests of a
\* non-premium user have completed, the persisted credit is the opening
\* balance less the costs of the completed debits, floored at 0, the result
\* of running the debits one after the other.
C4_DebitsLinearizable ==
    AllIdle =>
        \A u \in DOMAIN users :
            ~users[u].is_premium =>
                users[u].credit = Max(0, ledger.opening[u] - ledger.debits[u])

\* ------------------------------------------- register with an invitation
EmailC == <<"c", "@", "x">>

\* The first user has invited b@x: the row invite-friend leaves.
InvitationOfUserOne == InvitationGenerate(1, 1, EmailB, 1, "tokA")

\* The (invite_code, inviter_id) pairs a register request carries: none,
\* the invitation of the first user, a code nobody issued.
InviteRefs ==
    {[invite_code |-> "", inviter_id |-> 0],
     [invite_code |-> "tokA", inviter_id |-> 1],
     [invite_code |-> "tokB", inviter_id |-> 1]}

\* Request bodies of /register (UserCreate): credit is client-supplied.
UserCreates(emails, credits) ==
    {[email |-> e, password |-> "pw1", is_superuser |-> FALSE, is_active |-> TRUE,
      is_verified |-> FALSE, credit |-> c, invite_code |-> i.invite_code,
      inviter_id |-> i.inviter_id] : e \in emails, c \in credits, i \in InviteRefs}

\* Request bodies of /register-google.
UserGoogles(emails) ==
    {[email |-> e, google_id |-> "g1", invite_code |-> i.invite_code,
      inviter_id |-> i.inviter_id] : e \in emails, i \in InviteRefs}

InitRegister == InitWith(OneUser(10), {InvitationOfUserOne}, TokenPair(1, 1))

DoRegisterBegin(R) ==
    \E r \in R, user_create \in UserCreates({EmailB, EmailC}, {ModelDefaultCredit, 7, -1}) :
        RegisterBegin(r, PackageP, user_create)

DoRegisterCreate(R) == \E r \in R : RegisterCreate(r)

DoRegisterFinish(R) == \E r \in R : RegisterFinish(r, "000111")

DoGoogleRegisterBegin(R) ==
    \E r \in R, user_google \in UserGoogles({EmailB, EmailC}) :
        GoogleRegisterBegin(r, PackageP, user_google)

DoGoogleRegisterFinish(R) == \E r \in R : GoogleRegisterFinish(r)

\* Requests overlap: every request slot is served.
NextRegister ==
    \/ DoRegisterBegin(RequestIds)
    \/ DoRegisterCreate(RequestIds)
    \/ DoRegisterFinish(RequestIds)
    \/ DoGoogleRegisterBegin(RequestIds)
    \/ DoGoogleRegisterFinish(RequestIds)

SpecRegister == InitRegister /\ [][NextRegister]_vars

\* Requests one after the other: a single slot.
NextRegisterSeq ==
    \/ DoRegisterBegin({1})
    \/ DoRegisterCreate({1})
    \/ DoRegisterFinish({1})
    \/ DoGoogleRegisterBegin({1})
    \/ DoGoogleRegisterFinish({1})

SpecRegisterSeq == InitRegister /\ [][NextRegisterSeq]_vars

\* C2: in every reachable state every user's credit is >= 0.
C2_CreditNeverNegative == \A u \in DOMAIN users : users[u].credit >= 0

\* C6: of the register and register-google requests that present one unused
\* invitation at the same time, at most one consumes it and at most one
\* grants its bonus.
C6_InvitationConsumedOnce ==
    \A i \in 1..MaxRecords : ledger.invites[i].uses <= 1 /\ ledger.invites[i].grants <= 1

\* The register and register-google handlers, and their first steps.
RegisterOps == {"register", "google_register"}

RegisterBeginOps == {"register.begin", "google_register.begin"}

\* The body of a register or register-google request.
RegisterPayload(args) ==
    IF "user_create" \in DOMAIN args THEN args.user_create ELSE args.user_google

\* The request names invitation i: its code, its inviter, its application.
NamesInvitation(args, i) ==
    /\ RegisterPayload(args).invite_code = i.code
    /\ RegisterPayload(args).inviter_id = i.inviter_id
    /\ get_application_by_package_name(args.key) = i.application_id

\* The credit the invitations S have granted to their inviters so far.
RECURSIVE Granted(_)
Granted(S) ==
    IF S = {} THEN 0
    ELSE LET i == CHOOSE x \in S : TRUE
         IN ledger.invites[i.id].grants * applications[i.application_id].default_user_credit
            + Granted(S \ {i})

\* Each invitation has granted at most once, never without being consumed,
\* and once no request is in flight exactly as often as it was consumed;
\* the inviter's credit is the opening credit plus these grants.
BonusLedger ==
    /\ \A i \in invitations :
          /\ ledger.invites[i.id].grants <= 1
          /\ ledger.invites[i.id].grants <= ledger.invites[i.id].uses
          /\ AllIdle => /\ ledger.invites[i.id].grants = ledger.invites[i.id].uses
                        /\ i.is_used <=> ledger.invites[i.id].uses = 1
    /\ \A u \in {i.inviter_id : i \in invitations} :
          users[u].credit =
             ledger.opening[u] + Granted({i \in invitations : i.inviter_id = u})

\* C7: over any sequence of register and register-google calls, one after
\* the other, each invitation raises its inviter's credit by the
\* application's default_user_credit at most once, and exactly once when a
\* registration with it succeeds; a call that names a consumed invitation
\* fails and changes no credit.
C7_BonusOncePerInvitation ==
    [][/\ BonusLedger'
       /\ \A i \in invitations :
             /\ (/\ resp'.op \in RegisterOps
                 /\ resp'.status = 200
                 /\ NamesInvitation(resp'.args, i))
                => /\ ledger.invites[i.id].grants = 0
                   /\ ledger'.invites[i.id].grants = 1
                   /\ users'[i.inviter_id].credit =
                         users[i.inviter_id].credit
                         + applications[i.application_id].default_user_credit
             /\ (/\ AllIdle
                 /\ resp'.op \in RegisterOps \cup RegisterBeginOps
                 /\ NamesInvitation(resp'.args, i)
                 /\ i.is_used)
                => /\ resp'.status \in {400, 409}
                   /\ users' = users
                   /\ invitations' = invitations
                   /\ ledger' = ledger
      ]_vars

\* c@x retries the invitation b@x has consumed: the retry is refused and the
\* inviter holds the opening credit plus one bonus.
C7_Witness ==
    /\ resp.op = "register"
    /\ resp.detail = "invitation_code_used"
    /\ resp.args.user_create.email = EmailC
    /\ ledger.invites[1].grants = 1
    /\ users[1].credit = ledger.opening[1] + applications[1].default_user_credit
    /\ AllIdle

\* ------------------------------------------- credentials and the clock
EmailD == <<"d", "@", "x">>

\* a@x is verified, has invited c@x and has asked for a password reset; b@x
\* has registered and holds the verification register has issued.  From
\* there the three credentials are presented, consumed and left to expire.
UsersWithPending ==
    (1 :> Registered(1, EmailA, "pw1", FALSE, TRUE, 10)) @@
    (2 :> Registered(1, EmailB, "pw1", FALSE, FALSE, 10))

InitCredentials ==
    /\ InitStore(UsersWithPending,
                 {VerificationGenerate(1, 1, 2, "000111")},
                 {ResetTokenGenerate(1, 1, 1, "000111")},
                 {InvitationGenerate(1, 1, EmailC, 1, "tokA")},
                 TokenPair(1, 1))
    /\ debit = NoDebit

DoVerifyEmail ==
    \E key \in {PackageP, PackageQ}, code \in Codes : VerifyEmail(key, 2, code)

DoResetPassword ==
    \E key \in {PackageP, PackageQ}, token \in Codes : ResetPassword(key, token, "pw2")

\* Request bodies of /register that name the invitation of the first user.
InvitedUserCreates ==
    {u \in UserCreates({EmailC, EmailD}, {ModelDefaultCredit}) : u.invite_code = "tokA"}

DoRegisterInvited ==
    \E user_create \in InvitedUserCreates : RegisterBegin(1, PackageP, user_create)

NextCredentials ==
    \/ Tick
    \/ DoVerifyEmail
    \/ DoResetPassword
    \/ DoRegisterInvited
    \/ DoRegisterCreate({1})
    \/ DoRegisterFinish({1})

SpecCredentials == InitCredentials /\ [][NextCredentials]_vars

\* The application a request is resolved against.
ResolvedApp(r) == get_application_by_package_name(r.args.key)

\* A reset-password request that presents a token whose rows under the
\* application are all used is refused and writes nothing.
ConsumedResetTokenRefused ==
    (/\ resp'.op = "reset_password"
     /\ ResolvedApp(resp') # 0
     /\ \E t \in reset_tokens : /\ t.token = resp'.args.token
                                /\ t.application_id = ResolvedApp(resp')
     /\ ResetCandidates(ResolvedApp(resp'), resp'.args.token) = {})
    => (resp'.status = 400 /\ resp'.detail = "invalid_token" /\ UNCHANGED store)

\* A register or register-google request that names a used invitation is
\* refused and writes nothing.
ConsumedInvitationRefused ==
    \A i \in invitations :
        (/\ AllIdle
         /\ resp'.op \in RegisterOps \cup RegisterBeginOps
         /\ NamesInvitation(resp'.args, i)
         /\ i.is_used)
        => (/\ resp'.op \in RegisterOps
            /\ resp'.status \in {400, 409}
            /\ resp'.detail \in {"invitation_code_used", "user_exists"}
            /\ UNCHANGED <<store, requests>>)

\* A verify-email request for a user whose latest verification is consumed.
PresentsConsumedVerification ==
    /\ resp'.op = "verify_email"
    /\ ResolvedApp(resp') # 0
    /\ LatestVerification(resp'.args.user_id, ResolvedApp(resp')) # None
    /\ LatestVerification(resp'.args.user_id, ResolvedApp(resp')).is_verified

\* C5 as stated: once a verification code, a reset token or an invitation
\* has been consumed, every later request that presents it fails and writes
\* nothing; for a verification code the failure is the already-verified
\* error.
C5_SingleConsumption ==
    [][/\ PresentsConsumedVerification
          => (resp'.status = 409 /\ resp'.detail = "already_verified" /\ UNCHANGED store)
       /\ ConsumedResetTokenRefused
       /\ ConsumedInvitationRefused
      ]_vars

\* C5 amended: the same, except that a consumed verification code presented
\* after its expiry is refused with the expired error (410), and with the
\* already-verified error (409) only until then.
C5_SingleConsumptionUntilExpiry ==
    [][/\ PresentsConsumedVerification
          => (/\ IF VerificationIsExpired(
                        LatestVerification(resp'.args.user_id, ResolvedApp(resp')))
                 THEN resp'.status = 410 /\ resp'.detail = "verification_expired"
                 ELSE resp'.status = 409 /\ resp'.detail = "already_verified"
              /\ UNCHANGED store)
       /\ ConsumedResetTokenRefused
       /\ ConsumedInvitationRefused
      ]_vars

\* The consumed verification of b@x is presented again, with its code,
\* after it has expired.
C5_Witness ==
    /\ resp.op = "verify_email"
    /\ resp.status = 410
    /\ \E v \in verifications : /\ v.user_id = resp.args.user_id
                                /\ v.is_verified
                                /\ v.code = resp.args.code
                                /\ VerificationIsExpired(v)
    /\ users[resp.args.user_id].is_verified

\* C8: a request that presents a credential whose expires_at lies in the
\* past is refused with the expired outcome, whatever the code it carries,
\* and writes nothing: a verification code (410 verification_expired), a
\* reset token (400 token_expired), an invitation named by a register
\* request for an unregistered email (400 invitation_code_expired).
C8_ExpiredAlwaysExpired ==
    [][/\ (/\ resp'.op = "verify_email"
           /\ ResolvedApp(resp') # 0
           /\ LatestVerification(resp'.args.user_id, ResolvedApp(resp')) # None
           /\ VerificationIsExpired(
                 LatestVerification(resp'.args.user_id, ResolvedApp(resp'))))
          => (resp'.status = 410 /\ resp'.detail = "verification_expired"
              /\ UNCHANGED store)
       /\ (/\ resp'.op = "reset_password"
           /\ ResolvedApp(resp') # 0
           /\ ResetCandidates(ResolvedApp(resp'), resp'.args.token) # {}
           /\ \A t \in ResetCandidates(ResolvedApp(resp'), resp'.args.token) :
                 ResetTokenIsExpired(t))
          => (resp'.status = 400 /\ resp'.detail = "token_expired" /\ UNCHANGED store)
       /\ \A i \in invitations :
             (/\ AllIdle
              /\ resp'.op \in RegisterOps \cup RegisterBeginOps
              /\ NamesInvitation(resp'.args, i)
              /\ InvitationIsExpired(i)
              /\ get_user_by_email(RegisterPayload(resp'.args).email, ResolvedApp(resp')) = 0)
             => (/\ resp'.status = 400
                 /\ resp'.detail = "invitation_code_expired"
                 /\ UNCHANGED <<store, requests>>)
      ]_vars

\* ------------------------------------------------ every creation path
\* A superuser of the first application who holds tokens; b@x is created
\* under either application through each of the five paths.
InitIdentity ==
    InitWith((1 :> Registered(1, EmailA, "pw1", TRUE, TRUE, 10)), {}, TokenPair(1, 1))

\* The request bodies for b@x that name no invitation.
PlainUserCreates ==
    {u \in UserCreates({EmailB}, {ModelDefaultCredit}) : u.invite_code = ""}

PlainUserGoogles == {g \in UserGoogles({EmailB}) : g.invite_code = ""}

DoSignup == \E key \in {PackageP, PackageQ} : Signup(key, EmailB, "pw1", "000111")

DoAdminCreateUser ==
    \E key \in {PackageP, PackageQ}, p \in Presentable, user_in \in PlainUserCreates :
        AdminCreateUser(key, p, user_in)

DoGoogleLoginFirst == \E key \in {PackageP, PackageQ} : GoogleLogin(key, EmailB, "g1")

DoRegisterPlain ==
    \E key \in {PackageP, PackageQ}, user_create \in PlainUserCreates :
        RegisterBegin(1, key, user_create)

DoGoogleRegisterPlain ==
    \E key \in {PackageP, PackageQ}, user_google \in PlainUserGoogles :
        GoogleRegisterBegin(1, key, user_google)

NextIdentity ==
    \/ DoSignup
    \/ DoAdminCreateUser
    \/ DoGoogleLoginFirst
    \/ DoRegisterPlain
    \/ DoGoogleRegisterPlain
    \/ DoRegisterCreate({1})
    \/ DoRegisterFinish({1})
    \/ DoGoogleRegisterFinish({1})

SpecIdentity == InitIdentity /\ [][NextIdentity]_vars

\* The step has added a user of `application` whose real email is `email`.
CreatedUser(email, application) ==
    \E u \in DOMAIN users' \ DOMAIN users :
        /\ users'[u].application_id = application
        /\ extract_real_email(users'[u].email) = email

\* The email-already-registered refusals of the handlers.
EmailExistsDetails == {"user_exists", "user_with_email_exists"}

\* The request of the step is a creation of RegisterPayload-like email e
\* that the handler is allowed to serve: signup, login-google, the first
\* step of register and register-google, admin create by a superuser.
CreationRequest ==
    /\ ResolvedApp(resp') # 0
    /\ \/ resp'.op \in {"signup", "google_login"}
       \/ AllIdle /\ resp'.op \in RegisterOps \cup RegisterBeginOps
       \/ /\ resp'.op = "create_user"
          /\ get_current_user(resp'.args.bearer, ResolvedApp(resp')).status = 200
          /\ users[get_current_user(resp'.args.bearer, ResolvedApp(resp')).user].is_superuser

CreationEmail ==
    IF resp'.op \in {"signup", "google_login"} THEN resp'.args.email
    ELSE RegisterPayload(resp'.args).email

\* C9: through every creation path, a request to create a user whose real
\* email a user of the same application already has is refused with the
\* email-already-registered error and creates no user (login-google logs
\* that user in, creating none); a request whose real email no user of the
\* application has creates the user, whatever the other application holds.
C9_EmailUniquePerTenant ==
    [][/\ (CreationRequest /\ RegisteredIn(CreationEmail, ResolvedApp(resp')))
          => /\ DOMAIN users' = DOMAIN users
             /\ resp'.op # "google_login"
                => /\ resp'.detail \in EmailExistsDetails
                   /\ resp'.status \in {400, 409}
                   /\ UNCHANGED <<store, requests>>
       /\ (CreationRequest /\ ~RegisteredIn(CreationEmail, ResolvedApp(resp')))
          => \/ resp'.status = 200 /\ CreatedUser(CreationEmail, ResolvedApp(resp'))
             \/ resp'.op \in RegisterBeginOps
       /\ (/\ ~AllIdle
           /\ resp'.op \in RegisterOps \cup {"register.create", "google_register.create"}
           /\ requests[1] # Idle
           /\ requests[1].stage = "create")
          => /\ resp'.op \in {"register.create", "google_register.create"}
             /\ CreatedUser(requests[1].user_create.email, requests[1].application)
      ]_vars

\* ------------------------------------------------ tagging as a function
\* Package names (Application.package_name: any string, max_length only),
\* local parts and domains, as sequences of at most this many characters.
SeqsUpTo(alphabet, n) == UNION {[1..k -> alphabet] : k \in 1..n}

PackageNames == SeqsUpTo({"p", ".", "+"}, MaxTagLen)

LocalParts == SeqsUpTo({"a", "+"}, MaxTagLen)

Domains == {<<"x">>, <<"y", ".", "z">>}

InitTagging == InitWith(OneUser(10), {}, {})

\* prefix_email_with_package on local@domain, then extract_real_email on the
\* result.
TagEmail(package_name, local, domain) ==
    LET email == local \o <<"@">> \o domain
        prefixed == prefix_email_with_package(email, package_name)
    IN /\ resp' = Response("tag_email", [package_name |-> package_name, email |-> email],
                           0, "", {},
                           [prefixed |-> prefixed, real |-> extract_real_email(prefixed)])
       /\ UNCHANGED <<store, now, tokens, requests, ledger, debit, redeem_codes, llm, middleware>>

DoTagEmail ==
    \E package_name \in PackageNames, local \in LocalParts, domain \in Domains :
        TagEmail(package_name, local, domain)

NextTagging == DoTagEmail

SpecTagging == InitTagging /\ [][NextTagging]_vars

\* C11: for every package name, local part and domain,
\* extract_real_email(prefix_email_with_package(local@domain, package_name))
\* is local@domain.
C11_TaggingRoundTrips ==
    resp.op = "tag_email" => resp.out.real = resp.args.email

\* ------------------------------------------------ the credit of a new user
\* C12: a user created by register without an invitation starts with the
\* default_user_credit of the application the request is resolved against,
\* whatever the request body holds.
C12_RegisterStartsWithDefaultCredit ==
    [][(/\ resp'.op = "register"
        /\ resp'.status = 200
        /\ ~(resp'.args.user_create.invite_code # "" /\ resp'.args.user_create.inviter_id # 0))
       => users'[resp'.out.user_id].credit =
             applications[ResolvedApp(resp')].default_user_credit]_vars

\* ------------------------------------------------ a wrong code, then the code
\* The verify-email request of the step presents `code` for a user of the
\* resolved application whose latest verification is neither expired nor
\* consumed.
PresentsLiveVerification ==
    /\ resp'.op = "verify_email"
    /\ ResolvedApp(resp') # 0
    /\ get_user_by_id(resp'.args.user_id, ResolvedApp(resp')) # 0
    /\ LatestVerification(resp'.args.user_id, ResolvedApp(resp')) # None
    /\ ~VerificationIsExpired(LatestVerification(resp'.args.user_id, ResolvedApp(resp')))
    /\ ~LatestVerification(resp'.args.user_id, ResolvedApp(resp')).is_verified

\* C13: verify-email with a wrong code on an issued, unexpired, unconsumed
\* verification is refused with the code-mismatch error (422) and writes
\* nothing, so that the verification stays presentable; verify-email with
\* the code of that verification succeeds, marks the record verified and
\* sets the user's is_verified.
C13_WrongCodeThenCode ==
    [][PresentsLiveVerification =>
          LET rec == LatestVerification(resp'.args.user_id, ResolvedApp(resp'))
          IN IF resp'.args.code # rec.code
             THEN /\ resp'.status = 422
                  /\ resp'.detail = "invalid_verification_code"
                  /\ UNCHANGED store
             ELSE /\ resp'.status = 200
                  /\ [rec EXCEPT !.is_verified = TRUE] \in verifications'
                  /\ rec \notin verifications'
                  /\ users'[resp'.args.user_id].is_verified
                  /\ users' = [users EXCEPT ![resp'.args.user_id].is_verified = TRUE]
      ]_vars

\* The wrong code was presented for b@x: refused, and the verification is
\* still neither consumed nor expired, the user still unverified.
C13_Witness ==
    /\ resp.op = "verify_email"
    /\ resp.status = 422
    /\ resp.args.user_id = 2
    /\ ~users[2].is_verified
    /\ \E v \in verifications : /\ v.user_id = 2
                                /\ v.code # resp.args.code
                                /\ ~v.is_verified
                                /\ ~VerificationIsExpired(v)

\* -------------------------------------------------- PATCH /users/{user_id}
\* users.update_user with crud.update_user.  user_in is the update_data of
\* model_dump(exclude_unset=True): a record of the fields the request sets.
\* The row is loaded by session.get(User, user_id), whatever its application;
\* an email that starts with "package_name+" is stored as given, any other
\* email prefixed.
AdminUpdateUser(key, p, user_id, user_in) ==
    LET args == [key |-> key, bearer |-> p, user_id |-> user_id, user_in |-> user_in]
        application == get_application_by_package_name(key)
        cu == get_current_user(p, application)
        db_user == users[user_id]
        existing_user == get_user_by_email(user_in.email, db_user.application_id)
        package_name == applications[db_user.application_id].package_name
        tag == package_name \o <<"+">>
        email == IF Len(user_in.email) >= Len(tag) /\ SubSeq(user_in.email, 1, Len(tag)) = tag
                 THEN user_in.email
                 ELSE prefix_email_with_package(user_in.email, package_name)
    IN IF application = 0 THEN Answer(TenantRejected("update_user", args))
       ELSE IF cu.status # 200
       THEN Answer(Response("update_user", args, cu.status, cu.detail, {}, NoArgs))
       ELSE IF ~users[cu.user].is_superuser
       THEN Answer(Response("update_user", args, 403, "not_enough_privileges", {}, NoArgs))
       ELSE IF user_id \notin DOMAIN users
       THEN Answer(Response("update_user", args, 404, "user_not_found", {}, NoArgs))
       ELSE IF "email" \in DOMAIN user_in /\ existing_user # 0 /\ existing_user # user_id
       THEN Answer(Response("update_user", args, 409, "user_with_email_exists", {}, NoArgs))
       ELSE IF "email" \in DOMAIN user_in
               /\ \E u \in DOMAIN users \ {user_id} : users[u].email = email
       THEN Answer(Response("update_user", args, 500, "IntegrityError", {}, NoArgs))
       ELSE /\ users' = [users EXCEPT ![user_id] =
                   [f \in DOMAIN db_user |->
                       IF f = "email" /\ "email" \in DOMAIN user_in THEN email
                       ELSE IF f # "email" /\ f \in DOMAIN user_in THEN user_in[f]
                       ELSE db_user[f]]]
            /\ resp' = Response("update_user", args, 200, "ok", {}, [user_id |-> user_id])
            /\ UNCHANGED <<applications, verifications, reset_tokens, invitations, nextId,
                           now, tokens, requests, ledger, debit, redeem_codes, llm, middleware>>

\* --------------------------------------------------- priced chats, in turn
\* A superuser and a user of the first application who hold tokens; c@x
\* registers with a credit of its choice, verifies its email and logs in;
\* the superuser switches is_premium of the second user; chats are served
\* one after the other.
InitPricedChat ==
    \E c \in 0..2 :
        InitWith((1 :> Registered(1, EmailA, "pw1", TRUE, TRUE, 10))
                 @@ (2 :> Registered(1, EmailB, "pw1", FALSE, TRUE, c)),
                 {}, TokenPair(1, 1) \cup TokenPair(2, 1))

PricedUserCreates == {u \in UserCreates({EmailC}, {-1, 1}) : u.invite_code = ""}

PremiumUpdates == {[is_premium |-> TRUE], [is_premium |-> FALSE]}

\* The access tokens handed out, presented before they expire.
Bearers == {p \in Presentable : p.token.kind = "access" /\ ~p.expired}

NextPricedChat ==
    \/ \E user_create \in PricedUserCreates : RegisterBegin(1, PackageP, user_create)
    \/ DoRegisterCreate({1})
    \/ DoRegisterFinish({1})
    \/ VerifyEmail(PackageP, 3, "000111")
    \/ Login(PackageP, EmailC, "pw1")
    \/ \E p \in Bearers, user_in \in PremiumUpdates : AdminUpdateUser(PackageP, p, 2, user_in)
    \/ \E p \in Bearers : ChatBegin(1, PackageP, p)
    \/ \E sources \in BOOLEAN : ChatFinish(1, sources)

SpecPricedChat == InitPricedChat /\ [][NextPricedChat]_vars

\* The step is the completion of the chat request of slot r.
ChatServed(r) ==
    /\ requests[r].op = "chat"
    /\ requests'[r] = Idle
    /\ resp'.op = "chat"

\* C14: insufficient credit is never an error: a priced chat of a
\* non-premium user whose credit is below the cost (credit 0 included)
\* answers 200 with is_credit_sufficient = false and remaining_credit = 0,
\* and 0 is the user's persisted credit afterwards.
C14_InsufficientCreditIsNoError ==
    [][\A r \in RequestIds :
          (/\ ChatServed(r)
           /\ ~requests[r].is_premium
           /\ users[requests[r].user].credit < resp'.out.cost)
          => /\ resp'.status = 200
             /\ ~resp'.out.is_credit_sufficient
             /\ resp'.out.remaining_credit = 0
             /\ users'[requests[r].user].credit = 0]_vars

\* ------------------------------------------------- pricing of a chat request
\* ChatBusinessLogic.process_chat_request on a row with credit debit.credit:
\* the message is translated when the request's language is not the default
\* language "en" (translate_if_needed), the chat service answers with or
\* without sources, the cost is calculate_credit_cost(bool(sources)) and
\* process_credit_deduction debits it.
ProcessChatRequest(language, sources) ==
    LET needs_translation == language # "en"
        credit_cost == calculate_credit_cost(sources)
        result == process_credit_deduction(debit.credit, debit.is_premium, credit_cost)
    IN /\ debit.done = FALSE
       /\ debit' = [debit EXCEPT !.done = TRUE, !.by = "process_chat_request",
                                 !.cost = credit_cost, !.result = result]
       /\ resp' = Response("process_chat_request",
                           [language |-> language, sources |-> sources], 200, "ok", {},
                           [needs_translation |-> needs_translation,
                            credit_cost |-> credit_cost,
                            remaining_credit |-> result.remaining,
                            is_credit_sufficient |-> result.sufficient])
       /\ UNCHANGED <<store, now, tokens, requests, ledger, redeem_codes, llm, middleware>>

NextPricing ==
    \/ \E language \in {"en", "tr"}, sources \in BOOLEAN : ProcessChatRequest(language, sources)
    \/ DebitAgain

SpecPricing == InitDebit /\ [][NextPricing]_vars

\* C15: the cost of a priced operation is 1, plus 1 if the operation
\* returned retrieval sources, plus 1 if the input required translation, for
\* each of the four combinations of the two flags.
C15_CostCountsSourcesAndTranslation ==
    resp.op = "process_chat_request" =>
        resp.out.credit_cost = 1 + (IF resp.args.sources THEN 1 ELSE 0)
                                 + (IF resp.out.needs_translation THEN 1 ELSE 0)

\* C16: a premium user is charged 0: a priced chat served for a user whose
\* row has is_premium = true leaves that user's credit as it was and reports
\* is_credit_sufficient = true, whatever the cost and whatever the balance;
\* process_credit_deduction does the same for every balance and every cost.
C16_PremiumIsCharged0 ==
    /\ [](\A credit \in -1..MaxCredit, credit_cost \in 0..MaxCost :
             LET result == process_credit_deduction(credit, TRUE, credit_cost)
             IN ~result.written /\ result.credit = credit /\ result.sufficient)
    /\ [][\A r \in RequestIds :
             (ChatServed(r) /\ requests[r].is_premium /\ users[requests[r].user].is_premium)
             => /\ users'[requests[r].user].credit = users[requests[r].user].credit
                /\ resp'.status = 200
                /\ resp'.out.is_credit_sufficient]_vars

\* The second user, premium with no credit left, was served a chat with
\* sources (cost 2).
C16_Witness ==
    /\ resp.op = "chat"
    /\ resp.status = 200
    /\ resp.out.user_id = 2
    /\ resp.out.cost = 2
    /\ resp.out.is_credit_sufficient
    /\ users[2].is_premium
    /\ users[2].credit = 0

\* The response r answers a request whose bearer token failed validation
\* under the resolved application: the token is expired, does not decode, or
\* carries the claim of another application.
TokenValidationFailed(r) ==
    /\ r.op \in {"read_user_me", "refresh_token"}
    /\ ResolvedApp(r) # 0
    /\ \/ DecodeFails(r.args.bearer)
       \/ r.args.bearer.token.app # ResolvedApp(r)

\* C17: token validation failures are indistinguishable to the caller: an
\* expired token, a malformed token and a token of another tenant get the
\* same status and the same detail, from get_current_user and from
\* refresh-token: any two consecutive failures of one operation are answered
\* alike.
C17_TokenFailuresIndistinguishable ==
    [][(/\ TokenValidationFailed(resp)
        /\ TokenValidationFailed(resp')
        /\ resp'.op = resp.op)
       => (resp'.status = resp.status /\ resp'.detail = resp.detail)]_vars

\* Why the reset-password request that r answers cannot be served in the
\* current store: no token row with the presented code under the resolved
\* application, only consumed ones, or an unconsumed one that has expired.
ResetFailure(r) ==
    LET rows == {t \in reset_tokens : /\ t.token = r.args.token
                                      /\ t.application_id = ResolvedApp(r)}
    IN IF rows = {} THEN "not-found"
       ELSE IF \A t \in rows : t.is_used THEN "already-consumed"
       ELSE IF \A t \in rows : ~t.is_used => ResetTokenIsExpired(t) THEN "expired"
       ELSE "none"

\* C18: for every credential kind the validation failures not-found,
\* expired, already-consumed and code-mismatch are surfaced as pairwise
\* distinguishable outcomes; for the reset token, whose code is the key the
\* row is looked up by: two consecutive refused reset-password requests that
\* fail for different reasons differ in status or detail.
C18_FailuresDistinguishable ==
    [][(/\ resp.op = "reset_password" /\ resp'.op = "reset_password"
        /\ ResolvedApp(resp) # 0 /\ ResolvedApp(resp') # 0
        /\ resp.status # 200 /\ resp'.status # 200
        /\ ResetFailure(resp) # "none" /\ ResetFailure(resp') # "none"
        /\ ResetFailure(resp) # ResetFailure(resp'))
       => <<resp.status, resp.detail>> # <<resp'.status, resp'.detail>>]_vars

\* ------------------------------------------------------- inactive tenants
\* Each application is active or not (Application.is_active; no mounted
\* route writes it).  The users of both applications hold the tokens they
\* were given; requests come with the key of either application, with an
\* unknown key or without a key.
InitResolution ==
    /\ \E active \in [AppIds -> BOOLEAN] :
          applications = [a \in AppIds |-> [Applications0[a] EXCEPT !.is_active = active[a]]]
    /\ now = 0
    /\ users = UsersOfTwoTenants
    /\ verifications = {}
    /\ reset_tokens = {ResetTokenGenerate(1, 2, 2, "000111")}
    /\ invitations = {}
    /\ nextId = [user |-> 3, verification |-> 0, reset_token |-> 1, invitation |-> 0]
    /\ tokens = TokenPair(1, 1) \cup TokenPair(2, 2)
    /\ requests = NoRequests
    /\ resp = Response("init", NoArgs, 0, "", {}, NoArgs)
    /\ ledger = Ledger0(UsersOfTwoTenants)
    /\ debit = NoDebit
    /\ redeem_codes = {}
    /\ InitAssistants
    /\ InitRateLimit

NextResolution ==
    \/ \E key \in Keys \cup {NoKey}, password \in Passwords : Login(key, EmailA, password)
    \/ \E key \in Keys \cup {NoKey}, p \in Bearers : ReadUserMe(key, p)
    \/ \E key \in Keys \cup {NoKey}, p \in Bearers : AddCreditFromAd(key, p, 1)
    \/ \E key \in Keys \cup {NoKey} : ResetPassword(key, "000111", "pw1")
    \/ \E key \in Keys \cup {NoKey} : Signup(key, EmailC, "pw1", "000111")

SpecResolution == InitResolution /\ [][NextResolution]_vars

\* The active applications whose package name is this key.
ActiveTenants(key) ==
    {a \in AppIds : applications[a].package_name = key /\ applications[a].is_active}

\* C19: tenant resolution returns a tenant only when the supplied key is the
\* key of an existing tenant with is_active = true; an absent key, an unknown
\* key and the key of an inactive tenant are each rejected, resolution
\* changes no stored state, and no tenant-scoped operation executes for an
\* inactive tenant: such a request is answered 401, hands out no token and
\* leaves every table as it was.
C19_OnlyActiveTenantsResolve ==
    /\ [](\A key \in Keys \cup {NoKey} :
             /\ get_application_by_package_name(key) # 0
                => get_application_by_package_name(key) \in ActiveTenants(key)
             /\ (key = NoKey \/ ActiveTenants(key) = {})
                => get_application_by_package_name(key) = 0)
    /\ [][("key" \in DOMAIN resp'.args /\ ActiveTenants(resp'.args.key) = {})
          => /\ resp'.status = 401
             /\ resp'.minted = {}
             /\ UNCHANGED <<store, tokens, requests>>]_vars

\* The user of the second application logs in with the right password under
\* that application's key while the application is inactive, and is refused.
C19_Witness ==
    /\ resp.op = "login"
    /\ resp.args.key = PackageQ
    /\ resp.args.password = "pw2"
    /\ ~applications[2].is_active
    /\ authenticate(EmailA, "pw2", 2) = 2
    /\ resp.status = 401
    /\ resp.minted = {}

\* ---------------------------------------------------------- PATCH /users/me
\* users.update_user_me: the conflict check goes through get_user_by_email,
\* then sqlmodel_update writes the fields of the request on the row as they
\* are; the unique column rejects a stored email that exists.
UpdateUserMe(key, p, email) ==
    LET args == [key |-> key, bearer |-> p, email |-> email]
        application == get_application_by_package_name(key)
        cu == get_current_user(p, application)
        existing_user == get_user_by_email(email, users[cu.user].application_id)
    IN IF application = 0 THEN Answer(TenantRejected("update_user_me", args))
       ELSE IF cu.status # 200
       THEN Answer(Response("update_user_me", args, cu.status, cu.detail, {}, NoArgs))
       ELSE IF existing_user # 0 /\ existing_user # cu.user
       THEN Answer(Response("update_user_me", args, 409, "user_with_email_exists", {}, NoArgs))
       ELSE IF \E u \in DOMAIN users \ {cu.user} : users[u].email = email
       THEN Answer(Response("update_user_me", args, 500, "IntegrityError", {}, NoArgs))
       ELSE /\ users' = [users EXCEPT ![cu.user].email = email]
            /\ resp' = Response("update_user_me", args, 200, "ok", {}, [user_id |-> cu.user])
            /\ UNCHANGED <<applications, verifications, reset_tokens, invitations, nextId,
                           now, tokens, requests, ledger, debit, redeem_codes, llm, middleware>>

\* ------------------------------------------------- the ways an email is stored
\* Bodies of PATCH /users/{user_id} that set the email.
EmailUpdates == {[email |-> e] : e \in {EmailC, prefix_email_with_package(EmailC, PackageP)}}

\* A superuser and a user of the first application; new users register, sign
\* up or log in with Google, users change their email, the superuser changes
\* the email of the second user.
NextProfile ==
    \/ \E user_create \in PlainUserCreates : RegisterBegin(1, PackageQ, user_create)
    \/ DoRegisterCreate({1})
    \/ DoRegisterFinish({1})
    \/ \E user_google \in PlainUserGoogles : GoogleRegisterBegin(1, PackageQ, user_google)
    \/ DoGoogleRegisterFinish({1})
    \/ GoogleLogin(PackageP, EmailC, "g1")
    \/ Signup(PackageP, EmailC, "pw1", "000111")
    \/ \E p \in Bearers : UpdateUserMe(PackageP, p, EmailC)
    \/ \E p \in Bearers, user_in \in EmailUpdates : AdminUpdateUser(PackageP, p, 2, user_in)

SpecProfile == InitPricedChat /\ [][NextProfile]_vars

\* The stored email starts with the package name of the row's application
\* and "+", and what follows is an email address.
TaggedForOwnTenant(user) ==
    LET tag == applications[user.application_id].package_name \o <<"+">>
    IN /\ Len(user.email) > Len(tag)
       /\ SubSeq(user.email, 1, Len(tag)) = tag
       /\ user.email = prefix_email_with_package(extract_real_email(user.email),
                                                 applications[user.application_id].package_name)

\* C20: in every reachable state every stored user email is in tagged form
\* for its own tenant (package name, "+", real email), after any sequence of
\* register, register-google, login-google, signup, profile update
\* (users/me) and admin update operations.
C20_StoredEmailsAreTagged == \A u \in DOMAIN users : TaggedForOwnTenant(users[u])

\* ------------------------------------------------- issuance and the mail
\* The users and credentials of InitCredentials, all of the first
\* application.  Credentials are issued by register, verify-email-resend,
\* password-recovery and invite-friend, the mail that carries the code is
\* delivered or not, and codes are presented under the key of either
\* application.
NextIssuance ==
    \/ \E key \in {PackageP, PackageQ}, user_create \in PlainUserCreates \cup InvitedUserCreates :
          RegisterBegin(1, key, user_create)
    \/ DoRegisterCreate({1})
    \/ DoRegisterFinish({1})
    \/ \E key \in {PackageP, PackageQ} : VerifyEmailResend(key, 2, "000222")
    \/ \E key \in {PackageP, PackageQ} : RecoverPassword(key, EmailA, "000222")
    \/ \E p \in Bearers : InviteFriend(PackageP, p, EmailD, "tokB")
    \/ \E key \in {PackageP, PackageQ}, code \in Codes : VerifyEmail(key, 2, code)
    \/ \E key \in {PackageP, PackageQ}, token \in Codes : ResetPassword(key, token, "pw2")
    \/ \E key \in {PackageP, PackageQ}, code \in InviteCodes : CheckInvite(key, code)

SpecIssuance == InitCredentials /\ [][NextIssuance]_vars

\* The step is the last step of an issuing handler and stores a new
\* credential row.
Issues ==
    /\ resp'.op \in {"register", "verify_email_resend", "recover_password", "invite_friend"}
    /\ \/ nextId'.verification # nextId.verification
       \/ nextId'.reset_token # nextId.reset_token
       \/ nextId'.invitation # nextId.invitation

\* C21: credential issuance does not depend on notification delivery: when
\* sending the email fails during register, verify-email-resend,
\* password-recovery or invite-friend, the issued credential (and the created
\* user) stays persisted and the operation still reports success: every step
\* that issues a credential answers 200, delivered or not.
C21_IssuanceSucceedsWithoutMail ==
    [][Issues => resp'.status = 200]_vars

\* The request that r answers presents a code that no credential of the
\* resolved application carries, while a credential of another application
\* does: a verification of the user, a reset token, an invitation.
ForeignCode(r) ==
    LET a == ResolvedApp(r)
        foreign(rows, code) == /\ \E c \in rows : c.application_id # a /\ code[c]
                               /\ ~\E c \in rows : c.application_id = a /\ code[c]
    IN /\ a # 0
       /\ \/ /\ r.op = "verify_email"
             /\ foreign(verifications,
                        [v \in verifications |-> v.user_id = r.args.user_id /\ v.code = r.args.code])
          \/ /\ r.op = "reset_password"
             /\ foreign(reset_tokens, [t \in reset_tokens |-> t.token = r.args.token])
          \/ /\ r.op = "check_invite"
             /\ foreign(invitations, [i \in invitations |-> i.code = r.args.code])
          \/ /\ r.op \in {"register", "register.begin"}
             /\ AllIdle
             /\ foreign(invitations,
                        [i \in invitations |-> /\ i.code = r.args.user_create.invite_code
                                               /\ i.inviter_id = r.args.user_create.inviter_id])

\* C22: a credential issued under one tenant is never accepted by a request
\* resolved to another: verify-email, reset-password, register with an
\* invitation and the invitation check treat a code that exists only under
\* another tenant as not found and change no state.
C22_CodesOfOtherTenantsNotFound ==
    [][ForeignCode(resp')
       => /\ UNCHANGED <<store, tokens, requests>>
          /\ resp'.op = "verify_email" => resp'.status = 404
          /\ resp'.op = "reset_password"
             => (resp'.status = 400 /\ resp'.detail = "invalid_token")
          /\ resp'.op = "check_invite"
             => (~resp'.out.is_valid /\ resp'.out.message = "Invitation not found")
          /\ resp'.op \in {"register", "register.begin"}
             => (resp'.op = "register" /\ resp'.status = 404
                 /\ resp'.detail = "invalid_token")]_vars

\* The invitation tokA of the first application, unused and not expired, is
\* looked up under the second application's key and not found.
C22_Witness ==
    /\ resp.op = "check_invite"
    /\ resp.args.key = PackageQ
    /\ resp.args.code = "tokA"
    /\ resp.out.message = "Invitation not found"
    /\ \E i \in invitations : /\ i.code = "tokA" /\ i.application_id = 1
                              /\ ~i.is_used /\ i.expires_at > now

\* ------------------------------------------------------ deactivated users
\* Bodies of PATCH /users/{user_id} that set is_active.
ActiveUpdates == {[is_active |-> TRUE], [is_active |-> FALSE]}

\* The superuser switches is_active of the second user, who holds tokens
\* and a password, asks for a password reset, and keeps trying to get in.
NextDeactivated ==
    \/ \E p \in Bearers, user_in \in ActiveUpdates : AdminUpdateUser(PackageP, p, 2, user_in)
    \/ \E password \in Passwords : Login(PackageP, EmailB, password)
    \/ GoogleLogin(PackageP, EmailB, "g1")
    \/ \E p \in Presentable : RefreshToken(PackageP, p, "000111")
    \/ \E p \in Presentable : ReadUserMe(PackageP, p)
    \/ RecoverPassword(PackageP, EmailB, "000111")
    \/ ResetPassword(PackageP, "000111", "pw2")

SpecDeactivated == InitPricedChat /\ [][NextDeactivated]_vars

\* The user the request that r answers tries to get in as: the owner of the
\* password, of the Google email, of the bearer token; 0 if there is none.
Claimant(r) ==
    IF ResolvedApp(r) = 0 THEN 0
    ELSE IF r.op = "login" THEN authenticate(r.args.email, r.args.password, ResolvedApp(r))
    ELSE IF r.op = "google_login" THEN get_user_by_email(r.args.email, ResolvedApp(r))
    ELSE IF r.op \in {"refresh_token", "read_user_me"}
            /\ ~DecodeFails(r.args.bearer)
    THEN get_user_by_id(r.args.bearer.token.sub, ResolvedApp(r))
    ELSE 0

\* C23: a user with is_active = false can never authenticate: password
\* login, federated login, refresh-token and every request with a bearer
\* token are rejected while the flag is false, no token is handed out for
\* such a user, and reset-password does not change that user's password.
C23_InactiveUsersStayOut ==
    [][/\ (Claimant(resp') # 0 /\ ~users[Claimant(resp')].is_active)
          => /\ resp'.status \notin {0, 200}
             /\ resp'.minted = {}
             /\ tokens' = tokens
       /\ \A t \in resp'.minted : t.sub \in DOMAIN users => users[t.sub].is_active
       /\ \A u \in DOMAIN users :
             (~users[u].is_active /\ resp'.op = "reset_password")
             => users'[u].hashed_password = users[u].hashed_password]_vars

\* The second user, deactivated, presents the token of a password recovery
\* and is refused; the password is still the old one.
C23_Witness ==
    /\ resp.op = "reset_password"
    /\ resp.status = 400
    /\ resp.detail = "inactive_user"
    /\ ~users[2].is_active
    /\ verify_password("pw1", users[2].hashed_password)
    /\ \E t \in reset_tokens : t.user_id = 2 /\ t.token = "000111" /\ ~t.is_used

\* ------------------------------------------------------------ applications
\* crud.update_application: the fields of the row that update_data names
\* are set; a name that is no field of the row is passed over.
update_application(db_obj, update_data) ==
    [field \in DOMAIN db_obj |->
        IF field \in DOMAIN update_data THEN update_data[field] ELSE db_obj[field]]

\* Bodies of PUT /applications/{id} (ApplicationUpdate, exclude_unset).
ApplicationUpdates ==
    {[is_active |-> FALSE], [is_active |-> TRUE], [default_user_credit |-> 0]}

\* The handlers of routes/applications.py declare
\* `current_user: Any = get_current_active_superuser`: the function is the
\* parameter's default value, not a dependency, so nothing of the request's
\* key or token is looked at before the body runs.
\* applications.create_application: crud.create_application reads
\* app_create.package_name, which ApplicationCreate does not have.
CreateApplication(key, p) ==
    Answer(Response("create_application", [key |-> key, bearer |-> p], 500,
                    "AttributeError", {}, NoArgs))

\* applications.update_application
UpdateApplication(key, p, application_id, application_in) ==
    LET args == [key |-> key, bearer |-> p, application_id |-> application_id,
                 application_in |-> application_in]
    IN IF application_id \notin DOMAIN applications
       THEN Answer(Response("update_application", args, 404, "Application not found", {}, NoArgs))
       ELSE /\ applications' = [applications EXCEPT ![application_id] =
                                   update_application(@, application_in)]
            /\ resp' = Response("update_application", args, 200, "ok", {}, NoArgs)
            /\ UNCHANGED <<users, verifications, reset_tokens, invitations, nextId, now,
                           tokens, requests, ledger, debit, redeem_codes, llm, middleware>>

\* applications.regenerate_api_key: update_application with
\* {"api_key": new_api_key}; the row has no field api_key (the column was
\* renamed to package_name).
RegenerateApiKey(key, p, application_id, new_api_key) ==
    LET args == [key |-> key, bearer |-> p, application_id |-> application_id,
                 new_api_key |-> new_api_key]
    IN IF application_id \notin DOMAIN applications
       THEN Answer(Response("regenerate_api_key", args, 404, "Application not found", {}, NoArgs))
       ELSE /\ applications' = [applications EXCEPT ![application_id] =
                                   update_application(@, [api_key |-> new_api_key])]
            /\ resp' = Response("regenerate_api_key", args, 200, "ok", {}, NoArgs)
            /\ UNCHANGED <<users, verifications, reset_tokens, invitations, nextId, now,
                           tokens, requests, ledger, debit, redeem_codes, llm, middleware>>

\* A superuser and a user of the first application hold tokens; the
\* applications are administered and requests come in under every key.
NextApplications ==
    \/ \E key \in Keys \cup {NoKey}, p \in Bearers : CreateApplication(key, p)
    \/ \E key \in Keys \cup {NoKey}, p \in Bearers, application_id \in 1..3,
          application_in \in ApplicationUpdates :
          UpdateApplication(key, p, application_id, application_in)
    \/ \E key \in Keys \cup {NoKey}, p \in Bearers, application_id \in 1..3 :
          RegenerateApiKey(key, p, application_id, <<"z">>)
    \/ \E key \in Keys, p \in Bearers : ReadUserMe(key, p)

SpecApplications == InitPricedChat /\ [][NextApplications]_vars

\* C24: after regenerate-api-key on a tenant has completed, a request with
\* the tenant's previous key no longer resolves to that tenant, and the
\* newly generated key does.
C24_RegeneratedKeyReplacesOldKey ==
    [][(resp'.op = "regenerate_api_key" /\ resp'.status = 200)
       => /\ applications'[resp'.args.application_id].package_name
                # applications[resp'.args.application_id].package_name
          /\ applications'[resp'.args.application_id].package_name
                = resp'.args.new_api_key]_vars

\* The request is authenticated as an active superuser: its token passes
\* get_current_user under the resolved application and the user it names
\* is a superuser.
AuthenticatedSuperuser(key, p) ==
    LET current_application == get_application_by_package_name(key)
    IN /\ current_application # 0
       /\ get_current_user(p, current_application).status = 200
       /\ users[p.token.sub].is_superuser

\* C25: create, update and regenerate-api-key on applications take effect
\* only for a request authenticated as an active superuser; a request
\* without a valid superuser token changes no application.
C25_OnlySuperusersAdministerTenants ==
    [][(/\ resp'.op \in {"create_application", "update_application", "regenerate_api_key"}
        /\ ~AuthenticatedSuperuser(resp'.args.key, resp'.args.bearer))
       => /\ applications' = applications
          /\ resp'.status # 200]_vars

\* C26: invitation consumption and the inviter bonus are atomic: no
\* committed state has the invitation marked used and the new user stored
\* while the inviter's credit has not been raised, or the reverse.
C26_ConsumptionAndBonusAtomic ==
    \A i \in invitations :
       /\ ledger.invites[i.id].grants = ledger.invites[i.id].uses
       /\ i.is_used <=>
             users[i.inviter_id].credit
                = ledger.opening[i.inviter_id] + applications[i.application_id].default_user_credit

\* The rows of T that are consumed, by id.
Consumed(T, flag) == {x.id : x \in {y \in T : y[flag]}}

\* C27: the consumed flag of a credential is monotone (a verification's
\* is_verified, a reset token's is_used, an invitation's is_used never go
\* back to false), it is set only by a validate-and-consume that passed its
\* checks, and an invitation's used_at is written at most once.
C27_ConsumedFlagsMonotone ==
    [][/\ \A w \in verifications' : w.id \in Consumed(verifications, "is_verified") => w.is_verified
       /\ \A t \in reset_tokens' : t.id \in Consumed(reset_tokens, "is_used") => t.is_used
       /\ \A j \in invitations' : j.id \in Consumed(invitations, "is_used") => j.is_used
       /\ Consumed(verifications', "is_verified") # Consumed(verifications, "is_verified")
             => resp'.op = "verify_email" /\ resp'.status = 200
       /\ Consumed(reset_tokens', "is_used") # Consumed(reset_tokens, "is_used")
             => resp'.op = "reset_password" /\ resp'.status = 200
       /\ Consumed(invitations', "is_used") # Consumed(invitations, "is_used")
             => resp'.op \in {"register.create", "google_register.create"}
       /\ \A i \in invitations :
             i.is_used => ledger'.invites[i.id].uses = ledger.invites[i.id].uses
      ]_vars

\* ------------------------------------------------------------ reissue
\* a@x has a pending reset token and b@x, still unverified, a pending
\* verification and a token pair; new codes are issued to them by resend,
\* by a refused refresh and by recovery, and old and new codes presented.
InitReissue ==
    /\ InitStore(UsersWithPending,
                 {VerificationGenerate(1, 1, 2, "000111")},
                 {ResetTokenGenerate(1, 1, 1, "000111")},
                 {},
                 TokenPair(1, 1) \cup TokenPair(2, 1))
    /\ debit = NoDebit

NextReissue ==
    \/ \E code \in Codes : VerifyEmailResend(PackageP, 2, code)
    \/ \E p \in {q \in Presentable : q.token.kind = "refresh" /\ ~q.expired}, code \in Codes :
          RefreshToken(PackageP, p, code)
    \/ \E token \in Codes : RecoverPassword(PackageP, EmailA, token)
    \/ \E code \in Codes : VerifyEmail(PackageP, 2, code)
    \/ \E token \in Codes : ResetPassword(PackageP, token, "pw2")

SpecReissue == InitReissue /\ [][NextReissue]_vars

\* Verifications are issued to b@x only and reset tokens to a@x only, so
\* the row issued last to the user is the one with the highest id given out.
LastIssued(T, n) == {x \in T : x.id = n}

\* C28: reissue supersedes: once resend, a refused refresh or recovery has
\* issued a new code to a user, a code of the same kind issued to the user
\* earlier with another value fails validation and changes nothing; only
\* the code issued last can succeed.
C28_ReissueSupersedes ==
    [][/\ resp'.op = "verify_email"
          => IF resp'.status = 200
             THEN \E v \in LastIssued(verifications, nextId.verification) :
                     /\ v.user_id = resp'.args.user_id
                     /\ v.code = resp'.args.code
                     /\ resp'.out.id = v.id
             ELSE UNCHANGED store
       /\ resp'.op = "reset_password"
          => IF resp'.status = 200
             THEN \E t \in LastIssued(reset_tokens, nextId.reset_token) :
                     /\ t.token = resp'.args.token
                     /\ resp'.out.id = t.id
             ELSE UNCHANGED store
      ]_vars

\* After a refused refresh has issued 000222 next to the first code, which
\* is still stored, the first code is presented and refused.
C28_Witness ==
    /\ resp.op = "verify_email"
    /\ resp.args.code = "000111"
    /\ resp.status = 422
    /\ \E v \in verifications : v.id = 1 /\ v.code = "000111" /\ ~v.is_verified
    /\ \E v \in verifications : v.id = 2 /\ v.code = "000222"

\* C29: an invitation issued to email e is consumed only by a registration
\* whose email is e: a register or register-google request with another
\* email that presents the invitation's code and inviter id does not
\* consume it and yields no bonus.
C29_InvitationBoundToInvitee ==
    [][\A i \in invitations :
          (/\ resp'.op \in {"register.create", "google_register.create"} \cup RegisterOps
           /\ NamesInvitation(resp'.args, i)
           /\ RegisterPayload(resp'.args).email # i.email_to)
          => /\ \E j \in invitations' : j.id = i.id /\ j.is_used = i.is_used
             /\ ledger'.invites[i.id] = ledger.invites[i.id]
             /\ users'[i.inviter_id].credit = users[i.inviter_id].credit]_vars

\* ----------------------------------------------------------- redeem codes
\* Values asked for by POST /redeem-code/add.  RedeemCode.value is declared
\* with ge=50, but RedeemCode is a table model and is built without
\* validation, and the column has no check: any integer is stored.
RedeemValues == {-5, 5}

\* redeem.add_redeem_code
AddRedeemCode(key, p, code, value) ==
    LET args == [key |-> key, bearer |-> p, code |-> code, value |-> value]
        application == get_application_by_package_name(key)
        cu == get_current_user(p, application)
    IN IF application = 0 THEN Answer(TenantRejected("add_redeem_code", args))
       ELSE IF cu.status # 200
       THEN Answer(Response("add_redeem_code", args, cu.status, cu.detail, {}, NoArgs))
       ELSE IF ~users[cu.user].is_superuser
       THEN Answer(Response("add_redeem_code", args, 403,
                            "The user doesn't have enough privileges", {}, NoArgs))
       ELSE IF \E c \in redeem_codes : c.code = code
       THEN Answer(Response("add_redeem_code", args, 400, "redeem_code_exists", {}, NoArgs))
       ELSE /\ redeem_codes' = redeem_codes \cup
                                  {[code |-> code, value |-> value, is_used |-> FALSE]}
            /\ resp' = Response("add_redeem_code", args, 200, "ok", {}, NoArgs)
            /\ UNCHANGED <<store, now, tokens, requests, ledger, debit, llm, middleware>>

\* redeem.use_redeem_code: no application key and no token are asked for.
UseRedeemCode(code, user_id) ==
    LET args == [code |-> code, user_id |-> user_id]
        found == {c \in redeem_codes : c.code = code}
    IN IF found = {} \/ \E c \in found : c.is_used
       THEN Answer(Response("use_redeem_code", args, 400, "redeem_code_invalid", {}, NoArgs))
       ELSE IF user_id \notin DOMAIN users
       THEN Answer(Response("use_redeem_code", args, 404, "user_not_found", {}, NoArgs))
       ELSE \E redeem_code \in found :
               /\ users[user_id].credit + redeem_code.value <= MaxCredit
               /\ users' = [users EXCEPT ![user_id].credit = @ + redeem_code.value]
               /\ redeem_codes' = (redeem_codes \ {redeem_code}) \cup
                                     {[redeem_code EXCEPT !.is_used = TRUE]}
               /\ resp' = Response("use_redeem_code", args, 200, "ok", {},
                                   [current_credit |-> users[user_id].credit + redeem_code.value])
               /\ UNCHANGED <<applications, verifications, reset_tokens, invitations, nextId,
                              now, tokens, requests, ledger, debit, llm, middleware>>

\* The superuser issues redeem codes; credit is granted by ad reward, by
\* top-up and by redeeming.
NextGrants ==
    \/ \E p \in Bearers, code \in {"r1"}, value \in RedeemValues :
          AddRedeemCode(PackageP, p, code, value)
    \/ \E code \in {"r1"}, user_id \in 2..3 : UseRedeemCode(code, user_id)
    \/ \E p \in Bearers, amount \in {0, 3} : AddCredit(PackageP, p, amount)
    \/ \E p \in Bearers, amount \in {0, 1, 9, 10} : AddCreditFromAd(PackageP, p, amount)

SpecGrants == InitPricedChat /\ [][NextGrants]_vars

GrantOps == {"add_credit_from_ad", "add_credit", "use_redeem_code"}

\* C30: no grant lowers a balance: an ad reward raises the user's credit by
\* an amount in 1..9, a top-up with amount <= 0 is refused with the balance
\* unchanged, a redeem code adds a non-negative amount; after any grant
\* every user's credit is at least what it was.
C30_GrantsNeverLowerBalance ==
    [][resp'.op \in GrantOps
       => /\ \A u \in DOMAIN users : users'[u].credit >= users[u].credit
          /\ (resp'.op = "add_credit_from_ad" /\ resp'.status = 200)
                => \E u \in DOMAIN users : users'[u].credit - users[u].credit \in 1..9
          /\ (resp'.op = "add_credit" /\ resp'.args.amount <= 0)
                => resp'.status # 200 /\ users' = users]_vars

\* ------------------------------------------- redeem requests that overlap
\* use_redeem_code lines 47-53: the two selects.  The rows are held by the
\* request's session until its commit.
UseRedeemBegin(r, code, user_id) ==
    LET args == [code |-> code, user_id |-> user_id]
        found == {c \in redeem_codes : c.code = code}
    IN /\ requests[r] = Idle
       /\ IF found = {} \/ \E c \in found : c.is_used
          THEN Answer(Response("use_redeem_code", args, 400, "redeem_code_invalid", {}, NoArgs))
          ELSE IF user_id \notin DOMAIN users
          THEN Answer(Response("use_redeem_code", args, 404, "user_not_found", {}, NoArgs))
          ELSE \E redeem_code \in found :
                  /\ requests' = [requests EXCEPT ![r] =
                         [op |-> "use_redeem_code", stage |-> "commit", args |-> args,
                          user |-> user_id, credit |-> users[user_id].credit,
                          redeem_code |-> redeem_code]]
                  /\ resp' = Response("use_redeem_code.begin", args, 0, "", {}, NoArgs)
                  /\ UNCHANGED <<store, now, tokens, ledger, debit, redeem_codes, llm, middleware>>

\* Lines 55-58: user.credit += value and is_used = True on the rows read,
\* then the commit, which writes both by primary key.
UseRedeemCommit(r) ==
    LET q == requests[r]
    IN /\ q.op = "use_redeem_code"
       /\ q.credit + q.redeem_code.value <= MaxCredit
       /\ users' = [users EXCEPT ![q.user].credit = q.credit + q.redeem_code.value]
       /\ redeem_codes' = {IF c.code = q.redeem_code.code THEN [c EXCEPT !.is_used = TRUE] ELSE c :
                             c \in redeem_codes}
       /\ requests' = [requests EXCEPT ![r] = Idle]
       /\ resp' = Response("use_redeem_code", q.args, 200, "ok", {},
                           [current_credit |-> q.credit + q.redeem_code.value])
       /\ UNCHANGED <<applications, verifications, reset_tokens, invitations, nextId,
                      now, tokens, ledger, debit, llm, middleware>>

\* The superuser issues the code r1 worth 2 credits; the two users redeem
\* it in requests that may overlap.
NextRedeem ==
    \/ \E p \in Bearers : AddRedeemCode(PackageP, p, "r1", 2)
    \/ \E r \in RequestIds, code \in {"r1", "r2"}, user_id \in 1..3 :
          UseRedeemBegin(r, code, user_id)
    \/ \E r \in RequestIds : UseRedeemCommit(r)

SpecRedeem == InitPricedChat /\ [][NextRedeem]_vars

\* C31: a redeem code grants its value at most once: a use request succeeds
\* only for a code that is unused when it completes, it then adds the
\* code's value to one user, and every other request fails with no credit
\* change.
C31_RedeemCodeGrantsOnce ==
    [][resp'.op = "use_redeem_code"
       => IF resp'.status = 200
          THEN \E c \in redeem_codes :
                  /\ c.code = resp'.args.code
                  /\ ~c.is_used
                  /\ users' = [users EXCEPT ![resp'.args.user_id].credit = @ + c.value]
          ELSE users' = users]_vars

\* ------------------------------------------- the assistant registry in use
\* Validation constants; temperatures are in tenths.
MIN_TEMPERATURE == 0
MAX_TEMPERATURE == 20
MAX_PROMPT_LENGTH == 10000
MIN_PROMPT_LENGTH == 50

\* The longest nested list a caller builds.
MaxItems == 2

\* validate_assistant_config: "ok", or the message of the ValueError.
validate_assistant_config(c) ==
    IF "name" \notin DOMAIN c THEN "Missing required field: name"
    ELSE IF "system_prompt" \notin DOMAIN c THEN "Missing required field: system_prompt"
    ELSE IF "temperature" \notin DOMAIN c THEN "Missing required field: temperature"
    ELSE IF c.name.kind # "str" THEN "Name must be a non-empty string"
    ELSE IF c.name.len - c.name.blanks = 0 THEN "Name must be a non-empty string"
    ELSE IF c.system_prompt.kind # "str" THEN "System prompt must be a string"
    ELSE IF c.system_prompt.len - c.system_prompt.blanks < MIN_PROMPT_LENGTH
    THEN "System prompt must be at least"
    ELSE IF c.system_prompt.len > MAX_PROMPT_LENGTH THEN "System prompt must be less than"
    ELSE IF c.temperature.kind # "number" THEN "Temperature must be a number"
    ELSE IF ~(MIN_TEMPERATURE <= c.temperature.n /\ c.temperature.n <= MAX_TEMPERATURE)
    THEN "Temperature must be between"
    ELSE "ok"

\* A dict that brings a list of its own: the list becomes object ref.
Fresh == ListRef(0)

WithObject(c, ref) == [f \in DOMAIN c |-> IF c[f] = Fresh THEN ListRef(ref) ELSE c[f]]

BringsObject(c) == \E f \in DOMAIN c : c[f] = Fresh

\* dict.update: the fields of b over those of a.
update(a, b) == b @@ a

\* A call that raised: the registry and the objects stay as they are.
Raise(op, args, detail) ==
    /\ resp' = Response(op, args, 400, detail, {}, NoArgs)
    /\ UNCHANGED <<store, now, tokens, requests, ledger, debit, redeem_codes, llm, middleware>>

\* get_assistant_config: dict.copy() of the entry, a copy one level deep.
GetAssistantConfig(assistant_type) ==
    LET args == [assistant_type |-> assistant_type]
        normalized_type == strip(lower(assistant_type))
    IN IF IsEmptyStr(assistant_type)
       THEN Raise("get_assistant_config", args, "Assistant type cannot be empty")
       ELSE IF normalized_type \notin DOMAIN ASSISTANT_CONFIGS
       THEN Raise("get_assistant_config", args, "Unsupported assistant type")
       ELSE /\ config' = ASSISTANT_CONFIGS[normalized_type]
            /\ resp' = Response("get_assistant_config", args, 200, "ok", {}, NoArgs)
            /\ UNCHANGED <<store, now, tokens, requests, ledger, debit, redeem_codes,
                           ASSISTANT_CONFIGS, objects, middleware>>

\* register_assistant_type
RegisterAssistantType(assistant_type, name, system_prompt, temperature, additional_config) ==
    LET args == [assistant_type |-> assistant_type, name |-> name,
                 system_prompt |-> system_prompt, temperature |-> temperature,
                 additional_config |-> additional_config]
        normalized_type == strip(lower(assistant_type))
        built == update([name |-> name, system_prompt |-> system_prompt,
                         temperature |-> temperature], additional_config)
        checked == validate_assistant_config(built)
    IN IF IsEmptyStr(assistant_type)
       THEN Raise("register_assistant_type", args, "Assistant type must be a non-empty string")
       ELSE IF normalized_type \in DOMAIN ASSISTANT_CONFIGS
       THEN Raise("register_assistant_type", args, "already exists")
       ELSE IF checked # "ok"
       THEN Raise("register_assistant_type", args, checked)
       ELSE /\ BringsObject(built) => Len(objects) < MaxRecords
            /\ ASSISTANT_CONFIGS' =
                  (normalized_type :> WithObject(built, Len(objects) + 1)) @@ ASSISTANT_CONFIGS
            /\ objects' = IF BringsObject(built) THEN Append(objects, <<>>) ELSE objects
            /\ resp' = Response("register_assistant_type", args, 200, "ok", {}, NoArgs)
            /\ UNCHANGED <<store, now, tokens, requests, ledger, debit, redeem_codes,
                           config, middleware>>

\* load_external_config, the loop over the items of the JSON object: an item
\* that is no dict or does not validate is skipped, a valid one is stored
\* under assistant_type.lower(), over an entry that may be there already.
RECURSIVE LoadItems(_, _, _)
LoadItems(items, configs, objs) ==
    IF items = <<>> THEN [configs |-> configs, objects |-> objs]
    ELSE LET item == Head(items)
             valid == /\ item.is_dict
                      /\ validate_assistant_config(item.config) = "ok"
                      /\ BringsObject(item.config) => Len(objs) < MaxRecords
         IN IF ~valid THEN LoadItems(Tail(items), configs, objs)
            ELSE LoadItems(Tail(items),
                           (lower(item.assistant_type) :> WithObject(item.config, Len(objs) + 1))
                              @@ configs,
                           IF BringsObject(item.config) THEN Append(objs, <<>>) ELSE objs)

LoadExternalConfig(file) ==
    LET args == [config_path |-> file.path]
        loaded == LoadItems(file.items, ASSISTANT_CONFIGS, objects)
    IN IF ~file.exists
       THEN Raise("load_external_config", args, "Configuration file not found")
       ELSE IF ~file.is_object
       THEN Raise("load_external_config", args, "Configuration file must contain a JSON object")
       ELSE /\ ASSISTANT_CONFIGS' = loaded.configs
            /\ objects' = loaded.objects
            /\ resp' = Response("load_external_config", args, 200, "ok", {}, NoArgs)
            /\ UNCHANGED <<store, now, tokens, requests, ledger, debit, redeem_codes,
                           config, middleware>>

\* The caller of get_assistant_config changes the dict it was handed: it
\* sets a key of the dict.
SetKey(field, value) ==
    /\ config # NoConfig
    /\ config' = update(config, field :> value)
    /\ resp' = Response("mutate", [field |-> field], 200, "set", {}, NoArgs)
    /\ UNCHANGED <<store, now, tokens, requests, ledger, debit, redeem_codes,
                   ASSISTANT_CONFIGS, objects, middleware>>

\* ... or it appends to a list the dict holds.
AppendTo(field) ==
    /\ config # NoConfig
    /\ field \in DOMAIN config
    /\ config[field].kind = "list"
    /\ Len(objects[config[field].ref]) < MaxItems
    /\ objects' = [objects EXCEPT ![config[field].ref] = Append(@, "x")]
    /\ resp' = Response("mutate", [field |-> field], 200, "append", {}, NoArgs)
    /\ UNCHANGED <<store, now, tokens, requests, ledger, debit, redeem_codes,
                   ASSISTANT_CONFIGS, config, middleware>>

\* What the callers pass: known and new types, in other case and with
\* blanks; names, prompts and temperatures on both sides of every bound.
TypeStrings ==
    {Str("", FALSE, 0, 0), Str("doctor", FALSE, 0, 0), Str("doctor", TRUE, 1, 0),
     Str("tutor", FALSE, 0, 0), Str("tutor", TRUE, 1, 0)}

Names == {Text(1, 1), Text(5, 0)}

Prompts == {Text(49, 0), Text(51, 2), Text(50, 0), Text(10001, 0)}

Temperatures == {Num(-1), Num(20), Num(21)}

AdditionalConfigs == {<<>>, [tools |-> Fresh], [temperature |-> Num(30)]}

\* Calls of register_assistant_type: a valid one for a new type, and the same
\* call with one argument changed at a time.
ValidCall ==
    [assistant_type |-> Str("tutor", FALSE, 0, 0), name |-> Text(5, 0),
     system_prompt |-> Text(50, 0), temperature |-> Num(20), additional_config |-> <<>>]

RegisterCalls ==
    {[ValidCall EXCEPT !.assistant_type = t] : t \in TypeStrings}
    \cup {[ValidCall EXCEPT !.name = n] : n \in Names}
    \cup {[ValidCall EXCEPT !.system_prompt = x] : x \in Prompts}
    \cup {[ValidCall EXCEPT !.temperature = x] : x \in Temperatures}
    \cup {[ValidCall EXCEPT !.additional_config = x] : x \in AdditionalConfigs}

\* Files ASSISTANT_CONFIG_PATH may name: none, a JSON array, and JSON
\* objects with valid, invalid and non-dict items.
ExternalFiles ==
    {[path |-> "missing.json", exists |-> FALSE, is_object |-> FALSE, items |-> <<>>],
     [path |-> "array.json", exists |-> TRUE, is_object |-> FALSE, items |-> <<>>],
     [path |-> "coach.json", exists |-> TRUE, is_object |-> TRUE,
      items |-> <<[assistant_type |-> Str("coach", TRUE, 0, 0), is_dict |-> TRUE,
                   config |-> [name |-> Text(5, 0), system_prompt |-> Text(60, 0),
                               temperature |-> Num(3), tools |-> Fresh]],
                  [assistant_type |-> Str("legal", FALSE, 0, 0), is_dict |-> TRUE,
                   config |-> [name |-> Text(5, 0), system_prompt |-> Text(60, 0)]],
                  [assistant_type |-> Str("general", FALSE, 0, 0), is_dict |-> FALSE,
                   config |-> <<>>]>>],
     [path |-> "doctor.json", exists |-> TRUE, is_object |-> TRUE,
      items |-> <<[assistant_type |-> Str("doctor", FALSE, 0, 0), is_dict |-> TRUE,
                   config |-> [name |-> Text(6, 0), system_prompt |-> Text(70, 0),
                               temperature |-> Num(0)]]>>]}

NextAssistants ==
    \/ \E assistant_type \in TypeStrings \cup {Str("coach", FALSE, 0, 0)} :
          GetAssistantConfig(assistant_type)
    \/ \E call \in RegisterCalls :
          RegisterAssistantType(call.assistant_type, call.name, call.system_prompt,
                                call.temperature, call.additional_config)
    \/ \E file \in ExternalFiles : LoadExternalConfig(file)
    \/ \E value \in Temperatures : SetKey("temperature", value)
    \/ AppendTo("tools")

SpecAssistants == InitTagging /\ [][NextAssistants]_vars

\* The registry as a reader sees it: every entry with its lists' contents.
RegistryContents ==
    [t \in DOMAIN ASSISTANT_CONFIGS |->
        [f \in DOMAIN ASSISTANT_CONFIGS[t] |->
            IF ASSISTANT_CONFIGS[t][f].kind = "list"
            THEN objects[ASSISTANT_CONFIGS[t][f].ref]
            ELSE ASSISTANT_CONFIGS[t][f]]]

\* C32: every entry of the registry satisfies validate_assistant_config;
\* registering a type that exists fails and leaves the entry as it was; and
\* changing a configuration that get_assistant_config returned does not
\* change the registry.
C32_RegistryValidAndIsolated ==
    /\ [](\A t \in DOMAIN ASSISTANT_CONFIGS : validate_assistant_config(ASSISTANT_CONFIGS[t]) = "ok")
    /\ [][/\ (/\ resp'.op = "register_assistant_type"
              /\ strip(lower(resp'.args.assistant_type)) \in DOMAIN ASSISTANT_CONFIGS)
             => resp'.status # 200 /\ RegistryContents' = RegistryContents
          /\ resp'.op = "mutate" => RegistryContents' = RegistryContents]_vars

\* ------------------------------------------- invited registration, by default
\* The store of InitRegister with the first application's default_user_credit
\* set to any value 0..MaxCredit/2 and the inviter at 0 credits.
InitDefaultCredits ==
    /\ \E d \in 0..(MaxCredit \div 2) :
          applications = [Applications0 EXCEPT ![1].default_user_credit = d]
    /\ now = 0
    /\ users = OneUser(0)
    /\ verifications = {}
    /\ reset_tokens = {}
    /\ invitations = {InvitationOfUserOne}
    /\ nextId = [user |-> 1, verification |-> 0, reset_token |-> 0, invitation |-> 1]
    /\ tokens = TokenPair(1, 1)
    /\ requests = NoRequests
    /\ resp = Response("init", NoArgs, 0, "", {}, NoArgs)
    /\ ledger = Ledger0(OneUser(0))
    /\ debit = NoDebit
    /\ redeem_codes = {}
    /\ InitAssistants
    /\ InitRateLimit

SpecDefaultCredits == InitDefaultCredits /\ [][NextRegisterSeq]_vars

\* The request presents an invitation and got past its checks.
Invited(args) ==
    RegisterPayload(args).invite_code # "" /\ RegisterPayload(args).inviter_id # 0

\* C33: a user who registers through register with a valid invitation
\* starts with twice the application's default_user_credit, whatever that
\* default is.
C33_InvitedStartsWithDoubleDefault ==
    [][(resp'.op = "register.create" /\ Invited(resp'.args))
       => users'[nextId'.user].credit = 2 * applications[1].default_user_credit]_vars

\* C34: federated login returns tokens for an existing user only if the
\* google_id supplied equals the google_id stored for the user before the
\* request; with any other google_id no tokens are returned and the user's
\* google_id and is_verified stay as they were.
C34_FederatedLoginNeedsStoredId ==
    [][\A u \in DOMAIN users :
          (/\ resp'.op = "google_login"
           /\ get_application_by_package_name(resp'.args.key) # 0
           /\ u = get_user_by_email(resp'.args.email,
                                    get_application_by_package_name(resp'.args.key))
           /\ users[u].google_id # resp'.args.google_id)
          => /\ resp'.minted = {}
             /\ users'[u].google_id = users[u].google_id
             /\ users'[u].is_verified = users[u].is_verified]_vars

\* -------------------------------------------------------------- signing in
\* a@x is verified, b@x is not and holds a pending code and a token pair;
\* both log in and refresh while the clock runs past the code's expiry.
NextSignIn ==
    \/ \E email \in Emails, password \in Passwords : Login(PackageP, email, password)
    \/ \E p \in {q \in Presentable : q.token.kind = "refresh"} : RefreshToken(PackageP, p, "000222")
    \/ VerifyEmailResend(PackageP, 2, "000222")
    \/ \E code \in {"000111", "000222"} : VerifyEmail(PackageP, 2, code)
    \/ Tick

SpecSignIn == InitReissue /\ [][NextSignIn]_vars

\* The user a login or refresh-token request is about, 0 if the request
\* does not get as far as a user.
SignInUser(r) ==
    IF r.op = "login"
    THEN authenticate(r.args.email, r.args.password, ResolvedApp(r))
    ELSE IF refresh_outcome(r.args.bearer, ResolvedApp(r)).status = 200
    THEN r.args.bearer.token.sub
    ELSE 0

\* An unexpired, unconsumed verification code of user u.
PendingCode(u, V) == \E v \in V : v.user_id = u /\ ~v.is_verified /\ ~VerificationIsExpired(v)

\* C35: login and refresh-token return tokens only for a user who is active
\* and verified (and, for login, whose password matches); for an unverified
\* user they return an error, no tokens, and issue or reuse a verification
\* code.
C35_TokensOnlyForVerified ==
    [][(resp'.op \in {"login", "refresh_token"} /\ ResolvedApp(resp') # 0)
       => LET u == SignInUser(resp')
          IN /\ resp'.minted # {} => /\ u # 0
                                     /\ users[u].is_active
                                     /\ users[u].is_verified
             /\ (u # 0 /\ users[u].is_active /\ ~users[u].is_verified)
                   => /\ resp'.status # 200
                      /\ resp'.minted = {}
                      /\ PendingCode(u, verifications')]_vars

\* The active unverified user to whom the answered flow sends a verification
\* code, 0 if the request is none of these flows or sends none.
CodeRecipient(r) ==
    LET u == IF r.op \in {"login", "refresh_token"} /\ ResolvedApp(r) # 0
             THEN SignInUser(r)
             ELSE IF r.op = "verify_email_resend" /\ r.detail = "new_verification_sent"
             THEN r.args.user_id
             ELSE 0
    IN IF u # 0 /\ users[u].is_active /\ ~users[u].is_verified THEN u ELSE 0

\* Some code, submitted to verify-email now, verifies user u.
CanVerify(u) ==
    \E code \in {v.code : v \in verifications} :
        verify_email_outcome(users[u].application_id, u, code).status = 200

\* C36: an active unverified user can become verified: right after a flow
\* that sends the user a verification code (verify-email-resend, login or
\* refresh-token of an unverified user) there is a code that verify-email
\* accepts for the user.
C36_UnverifiedCanBecomeVerified ==
    [][\A u \in DOMAIN users : CodeRecipient(resp') = u => CanVerify(u)']_vars

\* ------------------------------------------------- invitations presented
\* Registrations one after the other, with and without an invitation, while
\* the clock runs past the invitation's expiry.
NextInvited ==
    \/ \E user_create \in UserCreates({EmailB, EmailC}, {ModelDefaultCredit}) :
          RegisterBegin(1, PackageP, user_create)
    \/ RegisterCreate(1)
    \/ RegisterFinish(1, "000111")
    \/ \E user_google \in UserGoogles({EmailB, EmailC}) :
          GoogleRegisterBegin(1, PackageP, user_google)
    \/ GoogleRegisterFinish(1)
    \/ Tick

SpecInvited == InitRegister /\ [][NextInvited]_vars

\* The request presents an invitation that is unknown, already used or
\* expired in the current state.
PresentsBadInvitation(args) ==
    LET named == {i \in invitations : NamesInvitation(args, i)}
    IN /\ RegisterPayload(args).invite_code # ""
       /\ RegisterPayload(args).inviter_id # 0
       /\ \/ named = {}
          \/ \E i \in named : i.is_used \/ InvitationIsExpired(i)

\* C37: a register or register-google request that presents an unknown,
\* used or expired invitation is never taken up, and the step that refuses
\* it answers an error and leaves users (their credits included) and
\* invitations as they were.
C37_BadInvitationRejectedBeforeWrite ==
    [][/\ resp'.op \in RegisterBeginOps => ~PresentsBadInvitation(resp'.args)
       /\ (resp'.op \in RegisterOps /\ requests' = requests /\ ResolvedApp(resp') # 0
              /\ PresentsBadInvitation(resp'.args))
             => /\ resp'.status \in {400, 404, 409}
                /\ resp'.minted = {}
                /\ store' = store]_vars

C37_Witness ==
    /\ resp.op \in RegisterOps
    /\ resp.status = 400
    /\ resp.detail = "invitation_code_expired"
    /\ \E i \in invitations : NamesInvitation(resp.args, i) /\ ~i.is_used /\ InvitationIsExpired(i)

\* --------------------------------------------------- chat service failures
\* chat.py lines 48-55: chat(...) raises; nothing has been written and the
\* exception leaves the handler.
ChatServiceFails(r) ==
    LET q == requests[r]
    IN /\ q.op = "chat"
       /\ requests' = [requests EXCEPT ![r] = Idle]
       /\ resp' = Response("chat", q.args, 500, "chat_failed", {},
                           [user_id |-> q.user, read_credit |-> q.credit])
       /\ UNCHANGED <<store, now, tokens, ledger, debit, redeem_codes, llm, middleware>>

\* chat.py lines 57-77: chat(...) has answered and the debit is committed;
\* the history is empty and generate_title's call of the chat model raises.
ChatTitleFails(r, sources) ==
    LET q == requests[r]
        d == chat_endpoint_debit(q.credit, q.is_premium, sources)
    IN /\ q.op = "chat"
       /\ users' = IF d.written THEN [users EXCEPT ![q.user].credit = d.credit] ELSE users
       /\ requests' = [requests EXCEPT ![r] = Idle]
       /\ resp' = Response("chat", q.args, 500, "title_failed", {},
                           [user_id |-> q.user, read_credit |-> q.credit])
       /\ ledger' = IF q.is_premium THEN ledger
                    ELSE [ledger EXCEPT !.debits[q.user] = @ + calculate_credit_cost(sources)]
       /\ UNCHANGED <<applications, verifications, reset_tokens, invitations, nextId, now,
                      tokens, debit, redeem_codes, llm, middleware>>

\* Chats one after the other; the chat model may fail at either call.
NextChatService ==
    \/ \E p \in Bearers : ChatBegin(1, PackageP, p)
    \/ \E sources \in BOOLEAN : ChatFinish(1, sources)
    \/ ChatServiceFails(1)
    \/ \E sources \in BOOLEAN : ChatTitleFails(1, sources)

SpecChatService == InitPricedChat /\ [][NextChatService]_vars

max_requests == 2
window_seconds == 2

\* getattr(settings, "RATE_LIMITING_WHITELIST", []): the default.
whitelist_ips == {}

\* Request paths as their segments.
HealthPath == <<"utils", "health">>
ChatPath == <<"chat">>

ClientIps == {"ip1", "ip2"}

\* path.endswith("/health") or a whitelisted address.
_is_exempt(client_ip, path) ==
    \/ Len(path) > 0 /\ path[Len(path)] = "health"
    \/ client_ip \in whitelist_ips

\* self.request_records.get(client_ip, [])
RecordsOf(client_ip) ==
    IF client_ip \in DOMAIN request_records THEN request_records[client_ip] ELSE <<>>

ForwardedOf(client_ip) ==
    IF client_ip \in DOMAIN forwarded THEN forwarded[client_ip] ELSE <<>>

\* RateLimitMiddleware.dispatch in production.  Nothing is awaited between
\* the pruning and the append, so the step is atomic on the event loop.
\* Response(content={...}) encodes its content on construction: a dict has no
\* encode, so the over-limit branch raises and the server answers 500.
Dispatch(client_ip, path) ==
    LET args == [client_ip |-> client_ip, path |-> path]
        kept == SelectSeq(RecordsOf(client_ip), LAMBDA timestamp : now - timestamp < window_seconds)
    IN IF _is_exempt(client_ip, path)
       THEN /\ resp' = Response("dispatch", args, 200, "forwarded", {}, NoArgs)
            /\ UNCHANGED <<store, now, tokens, requests, ledger, debit, redeem_codes, llm,
                           middleware>>
       ELSE IF Len(kept) >= max_requests
       THEN /\ request_records' = (client_ip :> kept) @@ request_records
            /\ resp' = Response("dispatch", args, 500, "AttributeError", {}, NoArgs)
            /\ UNCHANGED <<store, now, tokens, requests, ledger, debit, redeem_codes, llm,
                           forwarded>>
       ELSE /\ request_records' = (client_ip :> Append(kept, now)) @@ request_records
            /\ forwarded' = (client_ip :> Append(ForwardedOf(client_ip), now)) @@ forwarded
            /\ resp' = Response("dispatch", args, 200, "forwarded", {}, NoArgs)
            /\ UNCHANGED <<store, now, tokens, requests, ledger, debit, redeem_codes, llm>>

NextRateLimit ==
    \/ \E client_ip \in ClientIps, path \in {ChatPath, HealthPath} : Dispatch(client_ip, path)
    \/ Tick

SpecRateLimit == InitRegister /\ [][NextRateLimit]_vars

\* The requests of client_ip passed on at times t .. t + window_seconds - 1.
ForwardedWithin(client_ip, t) ==
    Cardinality({i \in DOMAIN ForwardedOf(client_ip) :
                    /\ t <= ForwardedOf(client_ip)[i]
                    /\ ForwardedOf(client_ip)[i] < t + window_seconds})

\* The timestamps of client_ip inside the window that ends now.
InWindow(client_ip) ==
    Cardinality({i \in DOMAIN RecordsOf(client_ip) :
                    now - RecordsOf(client_ip)[i] < window_seconds})

\* C39: for every client address at most max_requests rate-limited requests
\* are passed on within any window_seconds, and a request that arrives with
\* max_requests timestamps inside the window is answered 429, is not passed
\* on and is not recorded.
C39_RateLimited ==
    /\ [](\A client_ip \in ClientIps, t \in 0..MaxTime :
             ForwardedWithin(client_ip, t) <= max_requests)
    /\ [][\A client_ip \in ClientIps :
             (/\ resp'.op = "dispatch"
              /\ resp'.args.client_ip = client_ip
              /\ ~_is_exempt(client_ip, resp'.args.path)
              /\ InWindow(client_ip) >= max_requests)
             => /\ resp'.status = 429
                /\ forwarded' = forwarded
                /\ InWindow(client_ip)' = InWindow(client_ip)]_vars
====
